---- MODULE Spec2Model ----
(***************************************************************************)
(* Meow! Coverage: the coverage grouper, the hunk attributor, the range    *)
(* coalescers and the per-branch snapshot store, with the push run that    *)
(* reads, extends and writes back the snapshot blob.                       *)
(*                                                                         *)
(* The module holds several specifications over one set of variables.     *)
(* Each specification drives the variables of one component and leaves    *)
(* the others at their idle value:                                         *)
(*   SpecStore     BranchCoverageRecordCollection::add_new_record          *)
(*   SpecPush      generate_push_coverage_report, two or more runs racing  *)
(*   SpecGroup     LcovWrapper::group_data                                 *)
(*   SpecAttr      line_changed_in_hunk                                    *)
(*   SpecCoalesce  gather_lines, build_lines and the per-file closure of   *)
(*                 the PR report                                           *)
(*   SpecSameHunk  lines_in_same_hunk                                      *)
(*   SpecQuery     latest, last_delta, delta, delta_duration               *)
(*   SpecPercent   make_percent and the constructors that call it          *)
(*   SpecPull      generate_pr_coverage_report over the files of a report  *)
(*   SpecCommand   push, push-with-report, rebuild and remove-branch with  *)
(*                 the requests each sends                                 *)
(*                                                                         *)
(* f64 values are modelled as exact rationals plus NaN and the two         *)
(* infinities; binary rounding error of f64 is not modelled.               *)
(***************************************************************************)
EXTENDS Integers, Sequences, FiniteSets, TLC

VARIABLES
    collection,     \* SpecStore: the in-memory BranchCoverageRecordCollection
    lastCall,       \* SpecStore: arguments and clock reading of the last add_new_record
    blob,           \* SpecPush: the persisted snapshot blob of one (owner, repo, branch)
    runs,           \* SpecPush: per run, the position in generate_push_coverage_report and its locals
    stream,         \* SpecGroup: the lcov record stream
    grouped,        \* SpecGroup: result of group_data
    hunk,           \* SpecAttr: one patch::Hunk
    target,         \* SpecAttr: target_line
    changed,        \* SpecAttr: result of line_changed_in_hunk
    mode,           \* SpecCoalesce: which coalescer is exercised
    lines,          \* SpecCoalesce: input lines (uncovered lines of the file)
    hunks,          \* SpecCoalesce: hunks of the file's patch
    raw_lines,      \* SpecCoalesce: attributed lines (pull.rs raw_lines)
    ranges,         \* SpecCoalesce: output ranges
    diff,           \* SpecCoalesce: what the PR's file list holds for the file
    report,         \* SpecCoalesce: whether the closure kept the file
    query,          \* SpecSameHunk, SpecQuery, SpecPercent: the call made
    answer,         \* SpecSameHunk, SpecQuery, SpecPercent: what it returned
    pull,           \* SpecPull: one run of generate_pr_coverage_report
    cmd             \* SpecCommand: one run of a command and the requests it has sent

storeVars    == <<collection, lastCall>>
pushVars     == <<blob, runs>>
groupVars    == <<stream, grouped>>
attrVars     == <<hunk, target, changed>>
coalesceVars == <<mode, lines, hunks, raw_lines, ranges, diff, report>>
queryVars    == <<query, answer>>
runVars      == <<pull, cmd>>
vars == <<collection, lastCall, blob, runs, stream, grouped, hunk, target, changed,
          mode, lines, hunks, raw_lines, ranges, diff, report, query, answer, pull, cmd>>

(***************************************************************************)
(* Bounds                                                                  *)
(***************************************************************************)
MaxRecords == 2
MaxDaysPast == 2
MaxSecond == 1
NumRuns == 2
MaxStreamLen == 3
MaxTotal == 2
MaxLineNo == 2
MaxStart == 2
MaxCount == 3
MaxHunkLines == 3
MaxInputLen == 3
MaxStored == 3
MaxPercentStep == 10

(***************************************************************************)
(* Generic helpers                                                         *)
(***************************************************************************)
None == [some |-> FALSE, val |-> <<>>]
Some(v) == [some |-> TRUE, val |-> v]

Abs(i) == IF i < 0 THEN -i ELSE i

RECURSIVE GCD(_, _)
GCD(a, b) == IF b = 0 THEN a ELSE GCD(b, a % b)

SetMax(S) == CHOOSE x \in S : \A y \in S : y <= x

Range(s) == {s[i] : i \in DOMAIN s}

RECURSIVE SeqsUpTo(_, _)
SeqsUpTo(S, n) ==
    IF n = 0 THEN {<<>>}
    ELSE LET shorter == SeqsUpTo(S, n - 1)
         IN  shorter \cup {Append(s, x) : s \in {t \in shorter : Len(t) = n - 1}, x \in S}

(***************************************************************************)
(* f64, as far as the program uses it                                      *)
(***************************************************************************)
NaN == [k |-> "nan", n |-> 0, d |-> 1]
PosInf == [k |-> "inf", n |-> 0, d |-> 1]
NegInf == [k |-> "ninf", n |-> 0, d |-> 1]
Fin(n, d) ==
    LET g == GCD(Abs(n), Abs(d))
        s == IF d < 0 THEN -1 ELSE 1
    IN  [k |-> "fin", n |-> (s * n) \div g, d |-> (s * d) \div g]
IsFinite(x) == x.k = "fin"

\* f64::from(a) / f64::from(b) for unsigned a, b
FDivUnsigned(a, b) ==
    IF b = 0 THEN (IF a = 0 THEN NaN ELSE PosInf) ELSE Fin(a, b)
\* x * c for a positive integer constant c
FMulInt(x, c) == IF IsFinite(x) THEN Fin(x.n * c, x.d) ELSE x
\* f64::clamp(lo, hi) with integer limits: NaN stays NaN
FClamp(x, lo, hi) ==
    CASE x.k = "nan" -> NaN
      [] x.k = "inf" -> Fin(hi, 1)
      [] x.k = "ninf" -> Fin(lo, 1)
      [] OTHER -> IF x.n < lo * x.d THEN Fin(lo, 1)
                  ELSE IF x.n > hi * x.d THEN Fin(hi, 1) ELSE x
\* f64::round: to the nearest integer, halves away from zero
FRound(x) ==
    IF ~IsFinite(x) THEN x
    ELSE IF x.n >= 0 THEN Fin((2 * x.n + x.d) \div (2 * x.d), 1)
    ELSE Fin(-((2 * (-x.n) + x.d) \div (2 * x.d)), 1)
\* `as i16`: truncates, saturates, NaN becomes 0
AsI16(x) ==
    CASE x.k = "nan" -> 0
      [] x.k = "inf" -> 32767
      [] x.k = "ninf" -> -32768
      [] OTHER -> LET t == IF x.n >= 0 THEN x.n \div x.d ELSE -((-x.n) \div x.d)
                  IN  IF t > 32767 THEN 32767 ELSE IF t < -32768 THEN -32768 ELSE t

\* tracking.rs make_percent
make_percent_unclamped(percentage) == AsI16(FRound(FMulInt(percentage, 100)))
make_percent(percentage) ==
    AsI16(FClamp(FRound(FMulInt(FClamp(percentage, -100, 100), 100)), -10000, 10000))

(***************************************************************************)
(* Snapshot store (tracking/models.rs)                                     *)
(***************************************************************************)
SecondsPerDay == 86400
RetentionDays == 90

Teams == {"InstantMessaging", "Workflow", "Infrastructure", "Product", "Security", "Other"}

\* FileCoverageRecord::new
FileCoverageRecord(percentage, untested_lines) ==
    [percentage |-> make_percent(percentage), untested_lines |-> untested_lines]

\* BranchCoverageRecord
BranchCoverageRecord(timestamp, percentage, files) ==
    [timestamp |-> timestamp, percentage |-> percentage, files |-> files]

\* latest_timestamp: the first of the timestamps sorted descending
latest_timestamp(records) ==
    IF records = <<>> THEN None
    ELSE Some(SetMax({records[i].timestamp : i \in DOMAIN records}))

\* remove_old_records: retain(|item| item.timestamp >= time_limit)
KeepStrictlyNewer(item, time_limit) == item.timestamp > time_limit
KeepRecent(item, time_limit) == item.timestamp >= time_limit
remove_old_records(records, current_time) ==
    LET time_limit == current_time - RetentionDays * SecondsPerDay
    IN  SelectSeq(records, LAMBDA item : KeepRecent(item, time_limit))

\* the loop clearing `files` of every record whose timestamp is not the highest
StripOldFiles(records, highest_ts) ==
    [i \in DOMAIN records |->
        IF records[i].timestamp # highest_ts
        THEN [records[i] EXCEPT !.files = None]
        ELSE records[i]]

\* add_new_record, with the clock reading `now` made explicit
add_new_record(coll, now, percentage, files) ==
    LET pushed == Append(coll.records,
                         BranchCoverageRecord(now, make_percent(percentage), Some(files)))
        kept == remove_old_records(pushed, now)
        highest_ts == latest_timestamp(kept).val
    IN  [coll EXCEPT !.records = StripOldFiles(kept, highest_ts)]

(***************************************************************************)
(* SpecStore: one collection, add_new_record called at wall-clock readings *)
(***************************************************************************)
\* Wall-clock readings (unix seconds). OffsetDateTime::now_utc() is the
\* system wall clock of whichever machine runs: it is not monotonic across
\* calls, and two calls can fall in the same second.
Days == {0} \cup {RetentionDays - 1 + k : k \in 1..MaxDaysPast}
Times == {d * SecondsPerDay + s : d \in Days, s \in 0..MaxSecond}

\* lcov.percentage() values handed to add_new_record
PercentInputs == {Fin(60, 1), Fin(57335, 1000)}

\* per-file detail mappings handed to add_new_record
FilesEmpty == <<>>
FilesA == ("src/a.rs" :> FileCoverageRecord(Fin(50, 1), <<3>>))
FileMaps == {FilesEmpty, FilesA}

NoCall == [now |-> -1, percentage |-> NaN, files |-> <<>>, evicted |-> 0]

StoreIdle == collection = [team |-> "Other", records |-> <<>>] /\ lastCall = NoCall

AddNewRecord ==
    /\ Len(collection.records) < MaxRecords
    /\ \E now \in Times, percentage \in PercentInputs, files \in FileMaps :
        LET after == add_new_record(collection, now, percentage, files)
        IN  /\ collection' = after
            /\ lastCall' = [now |-> now, percentage |-> percentage, files |-> files,
                            evicted |-> Len(collection.records) + 1 - Len(after.records)]
    /\ UNCHANGED <<runVars, blob, runs, stream, grouped, hunk, target, changed,
                   mode, lines, hunks, raw_lines, ranges, diff, report, query, answer>>

(***************************************************************************)
(* Idle values of the components a specification does not drive            *)
(***************************************************************************)
PushIdle == blob = None /\ runs = <<>>
GroupIdle == stream = <<>> /\ grouped = None
AttrIdle == hunk = None /\ target = 0 /\ changed = None
CoalesceIdle ==
    /\ mode = "idle" /\ lines = <<>> /\ hunks = <<>> /\ raw_lines = None /\ ranges = None
    /\ diff = "absent" /\ report = "none"
QueryIdle == query = None /\ answer = None
PullIdle == pull = None
CommandIdle == cmd = None
RunIdle == PullIdle /\ CommandIdle

NextStore == AddNewRecord

\* BranchCoverageRecordCollection { team, records: Vec::new() }
InitStore ==
    /\ \E team \in {"Workflow", "Other"} : collection = [team |-> team, records |-> <<>>]
    /\ lastCall = NoCall
    /\ PushIdle /\ GroupIdle /\ AttrIdle /\ CoalesceIdle /\ QueryIdle /\ RunIdle

SpecStore == InitStore /\ [][NextStore]_vars

Detailed(records) == {i \in DOMAIN records : records[i].files.some}

\* C1: after any sequence of add_new_record calls at most one snapshot carries
\* the per-file detail, and it is the one with the maximum timestamp.
C1_AtMostOneDetailed ==
    LET records == collection.records
    IN  /\ Cardinality(Detailed(records)) <= 1
        /\ \A i \in Detailed(records) : \A j \in DOMAIN records :
               records[j].timestamp <= records[i].timestamp

\* C2: when add_new_record returns, the snapshot it pushed (the last of the
\* list, timestamp = now) is still stored and still carries the files passed in.
C2_PushedKeepsFiles ==
    lastCall # NoCall =>
        LET records == collection.records
        IN  /\ records # <<>>
            /\ records[Len(records)].timestamp = lastCall.now
            /\ records[Len(records)].files = Some(lastCall.files)

\* C3: a call at time now leaves no snapshot older than now - 90 days, keeps
\* every stored snapshot that is not older (in storage order, timestamp and
\* percentage untouched) and ends with the new snapshot.
Stamp(records) == [i \in DOMAIN records |-> <<records[i].timestamp, records[i].percentage>>]
C3_Retention ==
    [][ LET limit == lastCall'.now - 90 * 86400
            old == Stamp(collection.records)
            new == Stamp(collection'.records)
            young == {i \in DOMAIN old : old[i][1] >= limit}
        IN  /\ \A i \in DOMAIN new : new[i][1] >= limit
            /\ Len(new) = Cardinality(young) + 1
            /\ \A i \in young :
                   new[Cardinality({j \in young : j <= i})] = old[i]
            /\ new[Len(new)][1] = lastCall'.now
      ]_vars

\* a call 91 days after the only stored snapshot evicted it: one snapshot is left
C3_Witness ==
    /\ lastCall.now = 91 * 86400
    /\ lastCall.evicted = 1
    /\ Len(collection.records) = 1
    /\ collection.records[1].timestamp = 91 * 86400

(***************************************************************************)
(* SpecPush: runs of generate_push_coverage_report with a coverage        *)
(* repository, racing on the blob of one (owner, repo, branch).           *)
(* One action per awaited request, with the local code that precedes it.  *)
(***************************************************************************)
Runs == 1..NumRuns

\* serde_json::to_vec: `files` is skipped when None
SerializeRecord(rec) ==
    IF rec.files.some
    THEN [timestamp |-> rec.timestamp, percentage |-> rec.percentage, files |-> rec.files.val]
    ELSE [timestamp |-> rec.timestamp, percentage |-> rec.percentage]
Serialize(coll) ==
    [team |-> coll.team, records |-> [i \in DOMAIN coll.records |-> SerializeRecord(coll.records[i])]]

\* serde_json::from_slice: a missing `files` key is None
DeserializeRecord(json) ==
    BranchCoverageRecord(json.timestamp, json.percentage,
                         IF "files" \in DOMAIN json THEN Some(json.files) ELSE None)
Deserialize(content) ==
    [team |-> content.team,
     records |-> [i \in DOMAIN content.records |-> DeserializeRecord(content.records[i])]]

\* the content identifier the contents API reports: the git blob hash of the
\* content (equal contents, equal identifiers)
Sha(content) == content

\* lcov.percentage() of run r: each run reports its own total
RunPercentage(r) == Fin(10 * r, 1)
\* the team given on the command line of run r
RunTeam(r) == IF r = 1 THEN "Workflow" ELSE "Other"

RunStart ==
    [pc |-> "read", status |-> "none", body |-> None, sha |-> None, coll |-> None,
     wrote |-> FALSE, rejected |-> FALSE, dispatched |-> FALSE, err |-> "none"]

\* the blob an earlier run left behind: one snapshot, written at second 0
EarlierBlob ==
    Serialize(add_new_record([team |-> "Product", records |-> <<>>], 0, Fin(60, 1), FilesA))

\* the blob a run left behind 91 days ago
StaleBlob ==
    Serialize(add_new_record([team |-> "Product", records |-> <<>>],
                             -((RetentionDays + 1) * SecondsPerDay), Fin(40, 1), FilesA))

\* Absent or Populated blob, every run about to read it
InitPush ==
    /\ blob \in {None, Some(EarlierBlob), Some(StaleBlob)}
    /\ runs = [r \in Runs |-> RunStart]
    /\ StoreIdle /\ GroupIdle /\ AttrIdle /\ CoalesceIdle /\ QueryIdle /\ RunIdle

\* raw_file(...).await answers NOT_FOUND or the content (push.rs 102-108)
ReadBlob(r) ==
    /\ runs[r].pc = "read"
    /\ IF blob.some
       THEN runs' = [runs EXCEPT ![r].pc = "get_sha", ![r].status = "OK", ![r].body = blob]
       ELSE runs' = [runs EXCEPT ![r].pc = "write", ![r].status = "NOT_FOUND",
                                 ![r].coll = Some([team |-> RunTeam(r), records |-> <<>>])]
    /\ UNCHANGED <<runVars, blob, storeVars, groupVars, attrVars, coalesceVars, queryVars>>

\* raw_file(...).await answers UNAUTHORIZED (push.rs 109-110)
ReadUnauthorizedAsAbsent(r) ==
    /\ runs[r].pc = "read"
    /\ runs' = [runs EXCEPT ![r].pc = "write", ![r].status = "UNAUTHORIZED",
                            ![r].coll = Some([team |-> RunTeam(r), records |-> <<>>])]
    /\ UNCHANGED <<runVars, blob, storeVars, groupVars, attrVars, coalesceVars, queryVars>>
ReadUnauthorized(r) ==
    /\ runs[r].pc = "read"
    /\ runs' = [runs EXCEPT ![r].pc = "error", ![r].status = "UNAUTHORIZED",
                            ![r].err = "MissingAccessToCoverageRepo"]
    /\ UNCHANGED <<runVars, blob, storeVars, groupVars, attrVars, coalesceVars, queryVars>>

\* get_file_sha(...).await: a second request, answered from the blob as it is
\* now; then the body read before is deserialized (push.rs 112-120)
GetFileShaWithTeamOfCommandLine(r) ==
    /\ runs[r].pc = "get_sha"
    /\ IF blob.some
       THEN runs' = [runs EXCEPT ![r].pc = "write",
                                 ![r].sha = Some(Sha(blob.val)),
                                 ![r].coll = Some([Deserialize(runs[r].body.val)
                                                      EXCEPT !.team = RunTeam(r)])]
       ELSE runs' = [runs EXCEPT ![r].pc = "error", ![r].err = "octocrab"]
    /\ UNCHANGED <<runVars, blob, storeVars, groupVars, attrVars, coalesceVars, queryVars>>
GetFileSha(r) ==
    /\ runs[r].pc = "get_sha"
    /\ IF blob.some
       THEN runs' = [runs EXCEPT ![r].pc = "write",
                                 ![r].sha = Some(Sha(blob.val)),
                                 ![r].coll = Some(Deserialize(runs[r].body.val))]
       ELSE runs' = [runs EXCEPT ![r].pc = "error", ![r].err = "octocrab"]
    /\ UNCHANGED <<runVars, blob, storeVars, groupVars, attrVars, coalesceVars, queryVars>>

\* the storage's answer to the write request of a run: update_file is accepted
\* iff the given sha is the blob's current one, create_file iff there is no blob
WriteAccepted(sha) ==
    IF sha.some THEN blob.some /\ Sha(blob.val) = sha.val ELSE ~blob.some

\* add_new_record, to_vec, then update_file / create_file (.await?) (push.rs 138-172)
WriteBlobIgnoringRejection(r) ==
    /\ runs[r].pc = "write"
    /\ \E now \in 0..MaxSecond :
        LET coll == add_new_record(runs[r].coll.val, now, RunPercentage(r), FilesEmpty)
            content == Serialize(coll)
        IN  IF WriteAccepted(runs[r].sha)
            THEN /\ blob' = Some(content)
                 /\ runs' = [runs EXCEPT ![r].pc = "dispatch", ![r].coll = Some(coll),
                                         ![r].wrote = TRUE]
            ELSE /\ blob' = blob
                 /\ runs' = [runs EXCEPT ![r].pc = "dispatch", ![r].coll = Some(coll),
                                         ![r].rejected = TRUE]
    /\ UNCHANGED <<runVars, storeVars, groupVars, attrVars, coalesceVars, queryVars>>
WriteBlob(r) ==
    /\ runs[r].pc = "write"
    /\ \E now \in 0..MaxSecond :
        LET coll == add_new_record(runs[r].coll.val, now, RunPercentage(r), FilesEmpty)
            content == Serialize(coll)
        IN  IF WriteAccepted(runs[r].sha)
            THEN /\ blob' = Some(content)
                 /\ runs' = [runs EXCEPT ![r].pc = "dispatch", ![r].coll = Some(coll),
                                         ![r].wrote = TRUE]
            ELSE /\ blob' = blob
                 /\ runs' = [runs EXCEPT ![r].pc = "error", ![r].coll = Some(coll),
                                         ![r].rejected = TRUE, ![r].err = "octocrab"]
    /\ UNCHANGED <<runVars, storeVars, groupVars, attrVars, coalesceVars, queryVars>>

\* create_workflow_dispatch(...).send().await (push.rs 174-181)
Dispatch(r) ==
    /\ runs[r].pc = "dispatch"
    /\ runs' = [runs EXCEPT ![r].pc = "done", ![r].dispatched = TRUE]
    /\ UNCHANGED <<runVars, blob, storeVars, groupVars, attrVars, coalesceVars, queryVars>>

NextPush ==
    \E r \in Runs :
        \/ ReadBlob(r)
        \/ ReadUnauthorized(r)
        \/ GetFileSha(r)
        \/ WriteBlob(r)
        \/ Dispatch(r)

SpecPush == InitPush /\ [][NextPush]_vars

\* the snapshot of run r is in the persisted collection
Persisted(r) ==
    /\ blob.some
    /\ \E i \in DOMAIN blob.val.records :
           blob.val.records[i].percentage = make_percent(RunPercentage(r))

\* C4: no lost update: in every interleaving, each run whose write was
\* accepted still has its snapshot in the persisted collection (all runs fall
\* within the retention window, so none is evicted).
C4_NoLostUpdate == \A r \in Runs : runs[r].wrote => Persisted(r)

\* C5: a run whose blob write was rejected ends in an error and never sends the
\* workflow dispatch; a dispatch is only sent by a run whose write was accepted.
C5_RejectedWriteSurfaces ==
    \A r \in Runs :
        /\ runs[r].rejected => runs[r].pc = "error" /\ ~runs[r].dispatched
        /\ runs[r].pc \in {"dispatch", "done"} => runs[r].wrote
        /\ runs[r].dispatched => runs[r].wrote

\* one run's conditional write was rejected while another run's was accepted
C5_Witness ==
    \E r, q \in Runs : runs[r].rejected /\ runs[r].pc = "error" /\ runs[q].dispatched

\* C24: a run whose blob read answered Unauthorized ends with
\* MissingAccessToCoverageRepo: it holds no collection, attempted no write and
\* sent no dispatch; a run holds a newly created collection (no sha, the team
\* of its command line) only after the read answered NotFound.
C24_UnauthorizedIsTerminal ==
    \A r \in Runs :
        /\ runs[r].status = "UNAUTHORIZED" =>
               /\ runs[r].pc = "error" /\ runs[r].err = "MissingAccessToCoverageRepo"
               /\ ~runs[r].coll.some /\ ~runs[r].sha.some
               /\ ~runs[r].wrote /\ ~runs[r].rejected /\ ~runs[r].dispatched
        /\ runs[r].coll.some /\ ~runs[r].sha.some =>
               runs[r].status = "NOT_FOUND" /\ runs[r].coll.val.team = RunTeam(r)

\* no blob was stored: one run was answered Unauthorized and ended in the
\* error, another was answered NotFound and created the blob
C24_Witness ==
    \E r, q \in Runs :
        /\ runs[r].status = "UNAUTHORIZED" /\ runs[r].err = "MissingAccessToCoverageRepo"
        /\ runs[q].status = "NOT_FOUND" /\ runs[q].wrote
        /\ blob.some /\ blob.val.team = RunTeam(q)

\* C30: add_new_record changes nothing but the record list. The collection a
\* run holds carries the team of the blob it read (the team of the command
\* line only when the read answered NotFound); the call in the write step
\* leaves the team as it is, leaves at least one snapshot and at most one more
\* than before, and every snapshot but the pushed one is a snapshot held
\* before, timestamp and percentage unchanged, in the same order.
C30_AddNewRecordOnlyChangesRecords ==
    [][ \A r \in Runs :
            /\ runs'[r].coll.some /\ runs'[r].status = "OK" =>
                   runs'[r].coll.val.team = runs'[r].body.val.team
            /\ runs'[r].coll.some /\ runs'[r].status = "NOT_FOUND" =>
                   runs'[r].coll.val.team = RunTeam(r)
            /\ runs[r].pc = "write" /\ runs'[r].pc # "write" =>
                   LET before == runs[r].coll.val
                       after == runs'[r].coll.val
                       old == Stamp(before.records)
                       new == Stamp(after.records)
                   IN  /\ after.team = before.team
                       /\ Len(new) >= 1 /\ Len(new) <= Len(old) + 1
                       /\ \E first \in 1..(Len(old) + 1) :
                              SubSeq(new, 1, Len(new) - 1) = SubSeq(old, first, Len(old))
      ]_vars

\* a run of the Workflow team read a blob of the Product team whose only
\* snapshot is 91 days old: the blob it wrote is still of the Product team and
\* holds the new snapshot alone
C30_Witness ==
    /\ runs[1].status = "OK" /\ runs[1].body = Some(StaleBlob) /\ runs[1].wrote
    /\ RunTeam(1) # "Product"
    /\ runs[1].coll.val.team = "Product"
    /\ Len(runs[1].coll.val.records) = 1
    /\ runs[1].coll.val.records[1].timestamp >= 0

(***************************************************************************)
(* Coverage grouper (crates/shared/src/lib.rs)                             *)
(***************************************************************************)
\* lcov::Record, the variants the grouper looks at and one it ignores
SourceFile(path) == [t |-> "SourceFile", path |-> path, a |-> 0, b |-> 0]
LineData(line, count) == [t |-> "LineData", path |-> "", a |-> line, b |-> count]
LinesHit(hit) == [t |-> "LinesHit", path |-> "", a |-> hit, b |-> 0]
LinesFound(found) == [t |-> "LinesFound", path |-> "", a |-> found, b |-> 0]
EndOfRecord == [t |-> "EndOfRecord", path |-> "", a |-> 0, b |-> 0]

LcovFileCoverage(filename, percentage, file_lines) ==
    [filename |-> filename, percentage |-> percentage, lines |-> file_lines]

\* if let Some(last) = files.last_mut() { last.lines.push(line) }
PushLineToLast(files, line) ==
    IF files = <<>> THEN files ELSE [files EXCEPT ![Len(files)].lines = Append(@, line)]
\* if let Some(last) = files.last_mut() { last.percentage = percentage }
SetLastPercentage(files, percentage) ==
    IF files = <<>> THEN files ELSE [files EXCEPT ![Len(files)].percentage = percentage]

\* the per-file quotient computed when both totals are present (lib.rs 103, 116)
FilePercentage(hit, found) == FDivUnsigned(hit, found)

\* one iteration of the loop over the records: st = [files, lines_hit, lines_found]
GroupStepHitOnlyBuffered(st, record) ==
    CASE record.t = "SourceFile" ->
            [files |-> Append(st.files, LcovFileCoverage(record.path, Fin(0, 1), <<>>)),
             lines_hit |-> None, lines_found |-> None]
      [] record.t = "LineData" ->
            IF record.b = 0
            THEN [st EXCEPT !.files = PushLineToLast(st.files, record.a)]
            ELSE st
      [] record.t = "LinesHit" -> [st EXCEPT !.lines_hit = Some(record.a)]
      [] record.t = "LinesFound" ->
            IF st.lines_hit.some
            THEN [files |-> SetLastPercentage(st.files,
                                FilePercentage(st.lines_hit.val, record.a)),
                  lines_hit |-> None, lines_found |-> None]
            ELSE [st EXCEPT !.lines_found = Some(record.a)]
      [] OTHER -> st
GroupStepKeepingBuffers(st, record) ==
    CASE record.t = "SourceFile" ->
            [st EXCEPT !.files = Append(st.files, LcovFileCoverage(record.path, Fin(0, 1), <<>>))]
      [] record.t = "LineData" ->
            IF record.b = 0
            THEN [st EXCEPT !.files = PushLineToLast(st.files, record.a)]
            ELSE st
      [] record.t = "LinesHit" ->
            IF st.lines_found.some
            THEN [files |-> SetLastPercentage(st.files,
                                FilePercentage(record.a, st.lines_found.val)),
                  lines_hit |-> None, lines_found |-> None]
            ELSE [st EXCEPT !.lines_hit = Some(record.a)]
      [] record.t = "LinesFound" ->
            IF st.lines_hit.some
            THEN [files |-> SetLastPercentage(st.files,
                                FilePercentage(st.lines_hit.val, record.a)),
                  lines_hit |-> None, lines_found |-> None]
            ELSE [st EXCEPT !.lines_found = Some(record.a)]
      [] OTHER -> st
GroupStep(st, record) ==
    CASE record.t = "SourceFile" ->
            [files |-> Append(st.files, LcovFileCoverage(record.path, Fin(0, 1), <<>>)),
             lines_hit |-> None, lines_found |-> None]
      [] record.t = "LineData" ->
            IF record.b = 0
            THEN [st EXCEPT !.files = PushLineToLast(st.files, record.a)]
            ELSE st
      [] record.t = "LinesHit" ->
            IF st.lines_found.some
            THEN [files |-> SetLastPercentage(st.files,
                                FilePercentage(record.a, st.lines_found.val)),
                  lines_hit |-> None, lines_found |-> None]
            ELSE [st EXCEPT !.lines_hit = Some(record.a)]
      [] record.t = "LinesFound" ->
            IF st.lines_hit.some
            THEN [files |-> SetLastPercentage(st.files,
                                FilePercentage(st.lines_hit.val, record.a)),
                  lines_hit |-> None, lines_found |-> None]
            ELSE [st EXCEPT !.lines_found = Some(record.a)]
      [] OTHER -> st

RECURSIVE GroupFold(_, _)
GroupFold(st, records) ==
    IF records = <<>> THEN st ELSE GroupFold(GroupStep(st, Head(records)), Tail(records))

\* Vec::sort on u32: ascending, duplicates kept
RECURSIVE InsertSorted(_, _)
InsertSorted(s, x) ==
    IF s = <<>> THEN <<x>>
    ELSE IF x <= Head(s) THEN <<x>> \o s
    ELSE <<Head(s)>> \o InsertSorted(Tail(s), x)
RECURSIVE Sort(_)
Sort(s) == IF s = <<>> THEN <<>> ELSE InsertSorted(Sort(Tail(s)), Head(s))

\* LcovWrapper::group_data
group_data(records) ==
    LET files == GroupFold([files |-> <<>>, lines_hit |-> None, lines_found |-> None], records).files
    IN  [i \in DOMAIN files |-> [files[i] EXCEPT !.lines = Sort(@)]]

(***************************************************************************)
(* SpecGroup: group_data applied to every bounded record stream            *)
(***************************************************************************)
Records ==
    {SourceFile("src/a.rs"), EndOfRecord}
    \cup {LineData(l, c) : l \in 1..MaxLineNo, c \in 0..1}
    \cup {LinesHit(h) : h \in 0..MaxTotal}
    \cup {LinesFound(f) : f \in 0..MaxTotal}

InitGroup ==
    /\ stream \in SeqsUpTo(Records, MaxStreamLen)
    /\ grouped = None
    /\ StoreIdle /\ PushIdle /\ AttrIdle /\ CoalesceIdle /\ QueryIdle /\ RunIdle

GroupData ==
    /\ ~grouped.some
    /\ grouped' = Some(group_data(stream))
    /\ UNCHANGED <<runVars, stream, storeVars, pushVars, attrVars, coalesceVars, queryVars>>

NextGroup == GroupData

SpecGroup == InitGroup /\ [][NextGroup]_vars

\* positions of the SourceFile records, ascending; the k-th opens the k-th file
FilePositions == {i \in DOMAIN stream : stream[i].t = "SourceFile"}
\* positions of the records in the context of the file opened at position p
ContextOf(p) ==
    {i \in DOMAIN stream : i > p /\ \A q \in FilePositions : q > p => i < q}
FileIndex(p) == Cardinality({q \in FilePositions : q <= p})

\* C6: a file whose context holds LinesHit(h) and LinesFound(f) (one of each)
\* gets percentage exactly h/f*100, and a non-finite percentage when f = 0.
C6_PercentageIsHitOverFoundTimes100 ==
    grouped.some =>
        \A p \in FilePositions :
            LET hits == {i \in ContextOf(p) : stream[i].t = "LinesHit"}
                founds == {i \in ContextOf(p) : stream[i].t = "LinesFound"}
            IN  Cardinality(hits) = 1 /\ Cardinality(founds) = 1 =>
                    LET h == stream[CHOOSE i \in hits : TRUE].a
                        f == stream[CHOOSE i \in founds : TRUE].a
                        got == grouped.val[FileIndex(p)].percentage
                    IN  IF f = 0 THEN ~IsFinite(got) ELSE got = Fin(100 * h, f)

\* C20: for a file whose context holds one LinesHit(h) and one LinesFound(f),
\* the stream with the two records in the other order (every other record
\* unchanged) gives the same percentage and the same uncovered lines.
C20_TotalsOrderIndependent ==
    grouped.some =>
        \A p \in FilePositions :
            LET hits == {i \in ContextOf(p) : stream[i].t = "LinesHit"}
                founds == {i \in ContextOf(p) : stream[i].t = "LinesFound"}
            IN  Cardinality(hits) = 1 /\ Cardinality(founds) = 1 =>
                    LET i == CHOOSE i \in hits : TRUE
                        j == CHOOSE j \in founds : TRUE
                        swapped == [stream EXCEPT ![i] = stream[j], ![j] = stream[i]]
                        other == group_data(swapped)[FileIndex(p)]
                        this == grouped.val[FileIndex(p)]
                    IN  other.percentage = this.percentage /\ other.lines = this.lines

\* LinesFound(2) arrives before LinesHit(1): the quotient is 1/2, as it is
\* for LinesHit(1) before LinesFound(2)
C20_Witness ==
    /\ grouped.some
    /\ stream = <<SourceFile("src/a.rs"), LinesFound(2), LinesHit(1)>>
    /\ grouped.val[1].percentage = Fin(1, 2)
    /\ group_data(<<SourceFile("src/a.rs"), LinesHit(1), LinesFound(2)>>)[1].percentage
           = Fin(1, 2)

(***************************************************************************)
(* Hunk attributor (crates/shared/src/helpers.rs)                          *)
(***************************************************************************)
\* patch::Line, by kind (the text is not looked at)
Kinds == {"Add", "Context", "Remove"}
\* patch::Hunk: new_range {start, count} and lines; the parser does not tie
\* the number of lines to new_range.count
Hunk(start, count, hunk_lines) == [start |-> start, count |-> count, lines |-> hunk_lines]

\* the early return of line_changed_in_hunk, negated
InNewRangeInclusiveEnd(h, target_line) ==
    ~(target_line < h.start \/ target_line > h.start + h.count)
InNewRange(h, target_line) ==
    ~(target_line < h.start \/ target_line >= h.start + h.count)

\* what a line that does not match adds to current_line
CursorStepCountingRemoved(kind) == 1
CursorStep(kind) == IF kind = "Remove" THEN 0 ELSE 1

\* hunk.lines.iter().any(..) with the cursor the closure advances
RECURSIVE WalkLines(_, _, _)
WalkLines(hunk_lines, current_line, target_line) ==
    IF hunk_lines = <<>> THEN FALSE
    ELSE IF Head(hunk_lines) = "Add" /\ current_line = target_line THEN TRUE
    ELSE WalkLines(Tail(hunk_lines), current_line + CursorStep(Head(hunk_lines)), target_line)

line_changed_in_hunk(h, target_line) ==
    IF ~InNewRange(h, target_line) THEN FALSE
    ELSE WalkLines(h.lines, h.start, target_line)

(***************************************************************************)
(* SpecAttr: line_changed_in_hunk on every bounded hunk and target line    *)
(***************************************************************************)
InitAttr ==
    /\ \E start \in 1..MaxStart, count \in 0..MaxCount,
          hunk_lines \in SeqsUpTo(Kinds, MaxHunkLines) :
            hunk = Some(Hunk(start, count, hunk_lines))
    /\ target \in 0..(MaxStart + MaxCount + 1)
    /\ changed = None
    /\ StoreIdle /\ PushIdle /\ GroupIdle /\ CoalesceIdle /\ QueryIdle /\ RunIdle

LineChangedInHunk ==
    /\ ~changed.some
    /\ changed' = Some(line_changed_in_hunk(hunk.val, target))
    /\ UNCHANGED <<runVars, hunk, target, storeVars, pushVars, groupVars, coalesceVars, queryVars>>

NextAttr == LineChangedInHunk

SpecAttr == InitAttr /\ [][NextAttr]_vars

\* the lines of the hunk that exist in the new file, in order: the i-th of them
\* is the new file's line start + i - 1
NewFileLines == SelectSeq(hunk.val.lines, LAMBDA kind : kind # "Remove")
KindAt(t) ==
    LET i == t - hunk.val.start + 1
    IN  IF i \in DOMAIN NewFileLines THEN NewFileLines[i] ELSE "none"
TargetInRange ==
    hunk.val.start <= target /\ target < hunk.val.start + hunk.val.count

\* C9: line_changed_in_hunk(hunk, t) is true iff t is in the new range and the
\* new file's line t is an Added line of the hunk (Removed lines take no position).
C9_AttributorCorrect ==
    changed.some => (changed.val <=> (TargetInRange /\ KindAt(target) = "Add"))

\* a Removed and a Context line precede the Added line: the Added line is the
\* new file's line start + 1 and is reported as changed
C9_Witness ==
    /\ changed.some /\ changed.val
    /\ hunk.val.lines = <<"Remove", "Context", "Add">>
    /\ target = hunk.val.start + 1

\* C10: line_changed_in_hunk is false for every target below new_range.start
\* and every target at or above new_range.start + new_range.count.
C10_AttributorBoundary ==
    changed.some /\ ~TargetInRange => ~changed.val

\* the target is start + count and the walk would find an Added line there
C10_Witness ==
    /\ changed.some /\ ~changed.val
    /\ target = hunk.val.start + hunk.val.count
    /\ KindAt(target) = "Add"

(***************************************************************************)
(* Range coalescers (coverage/html.rs gather_lines, coverage/pull.rs)      *)
(***************************************************************************)
\* acc.iter().any(|&(low, high)| val >= low && val <= high)
CoveredBy(acc, val) == \E i \in DOMAIN acc : val >= acc[i][1] /\ val <= acc[i][2]

\* the closure of the fold in gather_lines
GatherStepKeepingDuplicates(acc, val) ==
    IF acc # <<>> /\ val # 0 /\ acc[Len(acc)][2] = val - 1
    THEN [acc EXCEPT ![Len(acc)][2] = val]
    ELSE Append(acc, <<val, val>>)
GatherStepOverGapOfOne(acc, val) ==
    IF CoveredBy(acc, val) THEN acc
    ELSE IF acc # <<>> /\ val > 1 /\ acc[Len(acc)][2] = val - 2
         THEN [acc EXCEPT ![Len(acc)][2] = val]
         ELSE Append(acc, <<val, val>>)
GatherStep(acc, val) ==
    IF CoveredBy(acc, val) THEN acc
    ELSE IF acc # <<>> /\ val # 0 /\ acc[Len(acc)][2] = val - 1
         THEN [acc EXCEPT ![Len(acc)][2] = val]
         ELSE Append(acc, <<val, val>>)

RECURSIVE GatherFold(_, _)
GatherFold(acc, vals) ==
    IF vals = <<>> THEN acc ELSE GatherFold(GatherStep(acc, Head(vals)), Tail(vals))

\* gather_lines: lines.iter().sorted().copied().fold(..)
gather_lines(input) == GatherFold(<<>>, Sort(input))

\* lines_in_same_hunk (helpers.rs 41-51)
lines_each_in_some_hunk(hs, line1, line2) ==
    /\ \E i \in DOMAIN hs : line1 >= hs[i].start /\ line1 < hs[i].start + hs[i].count
    /\ \E i \in DOMAIN hs : line2 >= hs[i].start /\ line2 < hs[i].start + hs[i].count
lines_in_hunk_of_second(hs, line1, line2) ==
    \E i \in DOMAIN hs :
        LET start_line == hs[i].start
            end_line == hs[i].start + hs[i].count
        IN  line2 >= start_line /\ line2 < end_line
lines_in_same_hunk(hs, line1, line2) ==
    \E i \in DOMAIN hs :
        LET start_line == hs[i].start
            end_line == hs[i].start + hs[i].count
        IN  line1 >= start_line /\ line1 < end_line /\ line2 >= start_line /\ line2 < end_line

\* raw_lines: the uncovered lines some hunk of the patch changed (pull.rs 88-94)
lines_in_some_new_range(hs, uncovered) ==
    SelectSeq(uncovered, LAMBDA line : \E i \in DOMAIN hs : InNewRange(hs[i], line))
attributed_lines(hs, uncovered) ==
    SelectSeq(uncovered, LAMBDA line : \E i \in DOMAIN hs : line_changed_in_hunk(hs[i], line))

\* the closure of the hunked_lines fold (pull.rs 101-112)
HunkStepMovingStart(hs, acc, line) ==
    IF acc # <<>> /\ lines_in_same_hunk(hs, acc[Len(acc)][2], line)
    THEN [acc EXCEPT ![Len(acc)][1] = line]
    ELSE Append(acc, <<line, line>>)
HunkStep(hs, acc, line) ==
    IF acc # <<>> /\ lines_in_same_hunk(hs, acc[Len(acc)][2], line)
    THEN [acc EXCEPT ![Len(acc)][2] = line]
    ELSE Append(acc, <<line, line>>)

RECURSIVE HunkFold(_, _, _)
HunkFold(hs, acc, vals) ==
    IF vals = <<>> THEN acc ELSE HunkFold(hs, HunkStep(hs, acc, Head(vals)), Tail(vals))

hunked_lines(hs, raw) == HunkFold(hs, <<>>, raw)

\* val - 1 on u32 (visualisation.rs 272): with overflow checks (debug build)
\* 0 - 1 panics, without them (release build) it wraps to u32::MAX, written
\* here as the same 32 bits read as a signed integer
U32SubOne(val, overflow_checks) ==
    IF val > 0 THEN Some(val - 1)
    ELSE IF overflow_checks THEN None ELSE Some(-1)

\* the closure of the fold in build_lines; st = [panicked, acc]
BuildLinesStep(st, val, overflow_checks) ==
    IF st.panicked \/ st.acc = <<>>
    THEN [st EXCEPT !.acc = IF st.panicked THEN @ ELSE Append(@, <<val, val>>)]
    ELSE LET before == U32SubOne(val, overflow_checks)
         IN  IF ~before.some
             THEN [st EXCEPT !.panicked = TRUE]
             ELSE IF st.acc[Len(st.acc)][2] = before.val
                  THEN [st EXCEPT !.acc[Len(st.acc)][2] = val]
                  ELSE [st EXCEPT !.acc = Append(@, <<val, val>>)]

RECURSIVE BuildLinesFold(_, _, _)
BuildLinesFold(st, vals, overflow_checks) ==
    IF vals = <<>> THEN st
    ELSE BuildLinesFold(BuildLinesStep(st, Head(vals), overflow_checks), Tail(vals), overflow_checks)

\* build_lines, the ranges it renders: None when the fold panicked
build_lines(untested_lines, overflow_checks) ==
    LET st == BuildLinesFold([panicked |-> FALSE, acc |-> <<>>], untested_lines, overflow_checks)
    IN  IF st.panicked THEN None ELSE Some(st.acc)

(***************************************************************************)
(* SpecCoalesce: gather_lines on every bounded input, and the per-file     *)
(* closure of generate_pr_coverage_report on every bounded patch           *)
(***************************************************************************)
\* hunks of a parsed patch: new_range.count Added or Context lines each
\* (Removed lines take no position in the new file and are left out here, every
\* set of in-range lines is still attributable); two hunks may overlap, the
\* parser does not compare them
PatchHunks ==
    {Hunk(start, Len(hunk_lines), hunk_lines) :
        start \in 1..MaxStart, hunk_lines \in SeqsUpTo({"Add", "Context"}, MaxCount)}
Patches == {<<>>} \cup {<<h>> : h \in PatchHunks} \cup {<<h1, h2>> : h1 \in PatchHunks, h2 \in PatchHunks}

\* group_data's sorted uncovered lines of the file: every line, or the odd ones
LastLine == MaxStart + MaxCount
AllLines == [i \in 1..LastLine |-> i]
OddLines == SelectSeq(AllLines, LAMBDA l : l % 2 = 1)

\* what file_diff_meta holds for the file: no entry (the file is not part of
\* the PR, or GitHub sent no patch text for it), a patch text that
\* Patch::from_single rejects, or one it parses
DiffStates == {"absent", "malformed", "parsed"}

\* untested_lines of a persisted FileCoverageRecord: the lines of group_data,
\* sorted, a line possibly more than once
UntestedLines ==
    {input \in SeqsUpTo(0..MaxLineNo, MaxInputLen) :
        \A i, j \in DOMAIN input : i < j => input[i] <= input[j]}

InitCoalesce ==
    /\ \/ /\ mode = "adjacent"
          /\ lines \in SeqsUpTo(0..MaxLineNo, MaxInputLen)
          /\ hunks = <<>>
          /\ diff = "absent"
       \/ /\ mode = "hunk"
          /\ lines \in {AllLines, OddLines}
          /\ diff \in DiffStates
          /\ hunks \in IF diff = "parsed" THEN Patches ELSE {<<>>}
       \/ /\ mode = "report"
          /\ lines \in UntestedLines
          /\ hunks = <<>>
          /\ diff = "absent"
    /\ raw_lines = None
    /\ ranges = None
    /\ report = "none"
    /\ StoreIdle /\ PushIdle /\ GroupIdle /\ AttrIdle /\ QueryIdle /\ RunIdle

\* gather_lines(lines)
GatherLines ==
    /\ mode = "adjacent"
    /\ ~ranges.some
    /\ ranges' = Some(gather_lines(lines))
    /\ UNCHANGED <<runVars, mode, lines, hunks, raw_lines, diff, report,
                   storeVars, pushVars, groupVars, attrVars, queryVars>>

\* the filter_map closure for one file: None when the file has no diff entry
\* or its patch does not parse; otherwise raw_lines, then hunked_lines unless
\* raw_lines is empty (the file is then left out)
PullFileCoverage ==
    /\ mode = "hunk"
    /\ report = "none"
    /\ IF diff # "parsed"
       THEN /\ report' = "omitted"
            /\ UNCHANGED <<raw_lines, ranges>>
       ELSE LET raw == attributed_lines(hunks, lines)
            IN  /\ raw_lines' = Some(raw)
                /\ ranges' = IF raw = <<>> THEN None ELSE Some(hunked_lines(hunks, raw))
                /\ report' = IF raw = <<>> THEN "omitted" ELSE "reported"
    /\ UNCHANGED <<runVars, mode, lines, hunks, diff, storeVars, pushVars, groupVars, attrVars, queryVars>>

\* build_lines(.., &value.untested_lines) in a build with or without
\* overflow checks (visualisation.rs 304)
BuildLines ==
    /\ mode = "report"
    /\ report = "none"
    /\ \E overflow_checks \in BOOLEAN :
        LET built == build_lines(lines, overflow_checks)
        IN  /\ ranges' = built
            /\ report' = IF built.some THEN "rendered" ELSE "panicked"
    /\ UNCHANGED <<runVars, mode, lines, hunks, raw_lines, diff,
                   storeVars, pushVars, groupVars, attrVars, queryVars>>

NextCoalesce == GatherLines \/ PullFileCoverage \/ BuildLines

SpecCoalesce == InitCoalesce /\ [][NextCoalesce]_vars

\* the integers the output ranges cover
Covered == UNION {{n \in ranges.val[i][1]..ranges.val[i][2] : TRUE} : i \in DOMAIN ranges.val}
\* the deduplicated input of the coalescer that ran
InputSet == IF mode = "hunk" THEN Range(raw_lines.val) ELSE Range(lines)

\* C7 as claimed: in both modes the output ranges cover exactly the
\* deduplicated input lines.
C7_TotalityBothModes == ranges.some => Covered = InputSet

\* C7 as amended: adjacency mode covers exactly the input lines; hunk mode
\* covers every input line, each range starts and ends at an input line, and a
\* range may cover lines in between that are not in the input.
C7_TotalityAdjacentSupersetHunk ==
    ranges.some =>
        /\ mode = "adjacent" => Covered = InputSet
        /\ mode = "hunk" =>
            /\ InputSet \subseteq Covered
            /\ \A i \in DOMAIN ranges.val :
                   ranges.val[i][1] \in InputSet /\ ranges.val[i][2] \in InputSet

\* hunk mode merged two attributed lines of one hunk over a line between them
\* that is not attributed
C7_Witness ==
    /\ mode = "hunk" /\ ranges.some
    /\ InputSet \subseteq Covered
    /\ \E n \in Covered : n \notin InputSet

\* one hunk's new range [start, start + count) holds both ends of the range
WithinOneHunk(first, last) ==
    \E i \in DOMAIN hunks :
        /\ hunks[i].start <= first /\ first < hunks[i].start + hunks[i].count
        /\ hunks[i].start <= last /\ last < hunks[i].start + hunks[i].count

\* no two hunks of the patch share a new-file line
HunksDisjoint ==
    \A i, j \in DOMAIN hunks :
        i # j => \A n \in hunks[i].start..(hunks[i].start + hunks[i].count - 1) :
                     ~(hunks[j].start <= n /\ n < hunks[j].start + hunks[j].count)

\* C8 as claimed: for every list of hunks, each range of hunked_lines lies
\* within a single hunk.
C8_NoRangeSpansHunks ==
    mode = "hunk" /\ ranges.some =>
        \A i \in DOMAIN ranges.val : WithinOneHunk(ranges.val[i][1], ranges.val[i][2])

\* C8 as amended: when the new ranges of the hunks are pairwise disjoint (as
\* in a unified diff), each range of hunked_lines lies within a single hunk.
C8_NoRangeSpansDisjointHunks ==
    mode = "hunk" /\ ranges.some /\ HunksDisjoint =>
        \A i \in DOMAIN ranges.val : WithinOneHunk(ranges.val[i][1], ranges.val[i][2])

\* two disjoint hunks, attributed lines in both: one range per hunk, one of
\* them longer than a line
C8_Witness ==
    /\ mode = "hunk" /\ ranges.some /\ HunksDisjoint
    /\ Len(hunks) = 2
    /\ Len(ranges.val) = 2
    /\ \E i \in DOMAIN ranges.val : ranges.val[i][1] < ranges.val[i][2]

\* the uncovered line is, in hunk h, a line of the new file that the hunk added
AddedAt(h, line) ==
    LET new_file == SelectSeq(h.lines, LAMBDA kind : kind # "Remove")
        i == line - h.start + 1
    IN  /\ h.start <= line /\ line < h.start + h.count
        /\ i \in DOMAIN new_file
        /\ new_file[i] = "Add"

\* C12: in a PR run the raw_lines of a file are exactly its uncovered lines
\* that some hunk of the file's patch changed (line_changed_in_hunk), no line
\* at a Context position or outside every hunk among them; the file is reported
\* iff there is such a line, and a file with no diff entry is left out.
C12_PullReportsChangedLines ==
    mode = "hunk" /\ report # "none" =>
        /\ diff # "parsed" => report = "omitted" /\ ~raw_lines.some /\ ~ranges.some
        /\ diff = "parsed" =>
            /\ raw_lines.val =
                   SelectSeq(lines, LAMBDA line :
                       \E i \in DOMAIN hunks : line_changed_in_hunk(hunks[i], line))
            /\ \A k \in DOMAIN raw_lines.val :
                   \E i \in DOMAIN hunks : AddedAt(hunks[i], raw_lines.val[k])
            /\ report = "reported" <=> raw_lines.val # <<>>
            /\ report = "reported" <=> ranges.some

\* a reported file with an uncovered line at a Context position and an
\* uncovered line outside every hunk, both left out of raw_lines
C12_Witness ==
    /\ mode = "hunk" /\ diff = "parsed" /\ report = "reported"
    /\ \E line \in Range(lines) :
           /\ line \notin Range(raw_lines.val)
           /\ \E i \in DOMAIN hunks : InNewRange(hunks[i], line)
    /\ \E line \in Range(lines) :
           /\ line \notin Range(raw_lines.val)
           /\ \A i \in DOMAIN hunks : ~InNewRange(hunks[i], line)

(***************************************************************************)
(* SpecSameHunk: lines_in_same_hunk on every bounded hunk list and pair    *)
(***************************************************************************)
\* hunks as lines_in_same_hunk sees them: only new_range is read
SameHunkHunks ==
    {Hunk(start, count, [i \in 1..count |-> "Add"]) :
        start \in 1..MaxStart, count \in 0..MaxCount}
SameHunkPatches ==
    {<<>>} \cup {<<h>> : h \in SameHunkHunks}
           \cup {<<h1, h2>> : h1 \in SameHunkHunks, h2 \in SameHunkHunks}

InitSameHunk ==
    /\ \E hs \in SameHunkPatches, line1 \in 0..(LastLine + 1), line2 \in 0..(LastLine + 1) :
           query = Some([hunks |-> hs, line1 |-> line1, line2 |-> line2])
    /\ answer = None
    /\ StoreIdle /\ PushIdle /\ GroupIdle /\ AttrIdle /\ CoalesceIdle /\ RunIdle

LinesInSameHunk ==
    /\ ~answer.some
    /\ answer' = Some(lines_in_same_hunk(query.val.hunks, query.val.line1, query.val.line2))
    /\ UNCHANGED <<runVars, query, storeVars, pushVars, groupVars, attrVars, coalesceVars>>

NextSameHunk == LinesInSameHunk

SpecSameHunk == InitSameHunk /\ [][NextSameHunk]_vars

\* line n lies in the new range of the i-th hunk of the call
InHunk(i, n) ==
    /\ query.val.hunks[i].start <= n
    /\ n < query.val.hunks[i].start + query.val.hunks[i].count

\* C11: lines_in_same_hunk(hunks, a, b) is true iff one hunk has both a and b
\* in [start, start + count); it is false when a and b each lie in a hunk but
\* never in the same one, and false for the empty hunk list.
C11_SameHunkIff ==
    answer.some =>
        LET hs == query.val.hunks
            a == query.val.line1
            b == query.val.line2
        IN  /\ answer.val <=> \E i \in DOMAIN hs : InHunk(i, a) /\ InHunk(i, b)
            /\ hs = <<>> => ~answer.val
            /\ (\A i \in DOMAIN hs : ~(InHunk(i, a) /\ InHunk(i, b))) => ~answer.val

\* a lies in one hunk, b in the other, no hunk holds both: the answer is false
C11_Witness ==
    /\ answer.some /\ ~answer.val
    /\ Len(query.val.hunks) = 2
    /\ \E i \in DOMAIN query.val.hunks : InHunk(i, query.val.line1)
    /\ \E i \in DOMAIN query.val.hunks : InHunk(i, query.val.line2)
    /\ \A i \in DOMAIN query.val.hunks :
           ~(InHunk(i, query.val.line1) /\ InHunk(i, query.val.line2))

(***************************************************************************)
(* gather_lines (SpecCoalesce, adjacency mode)                             *)
(***************************************************************************)
\* C13: for any input order, duplicates included, gather_lines returns the
\* ascending maximal runs of consecutive integers of the deduplicated input:
\* every range is a run of input lines, every input line is in a range, and
\* each range starts above the previous range's end + 1; the empty input gives
\* the empty list and line 0 is handled (the examples of the unit test hold).
C13_GatherMaximalRuns ==
    /\ mode = "adjacent" /\ ranges.some =>
        LET out == ranges.val
        IN  /\ \A i \in DOMAIN out :
                   /\ out[i][1] <= out[i][2]
                   /\ \A n \in out[i][1]..out[i][2] : n \in Range(lines)
            /\ \A n \in Range(lines) :
                   \E i \in DOMAIN out : out[i][1] <= n /\ n <= out[i][2]
            /\ \A i \in DOMAIN out : i > 1 => out[i][1] > out[i - 1][2] + 1
            /\ lines = <<>> => out = <<>>
    /\ gather_lines(<<0, 0, 1, 0>>) = << <<0, 1>> >>
    /\ gather_lines(<<3, 1, 4, 5, 6, 8, 10>>) = << <<1, 1>>, <<3, 6>>, <<8, 8>>, <<10, 10>> >>
    /\ gather_lines(<<0, 1, 2, 3, 5, 6, 8, 10>>) = << <<0, 3>>, <<5, 6>>, <<8, 8>>, <<10, 10>> >>
    /\ gather_lines(<<>>) = <<>>

\* an unsorted input with a duplicate and line 0: two runs come out
C13_Witness ==
    /\ mode = "adjacent" /\ ranges.some
    /\ 0 \in Range(lines)
    /\ \E i, j \in DOMAIN lines : i < j /\ lines[i] > lines[j]
    /\ \E i, j \in DOMAIN lines : i < j /\ lines[i] = lines[j]
    /\ Len(ranges.val) = 2

\* the lines a list of ranges covers, range by range, ascending within a range
RECURSIVE flatten(_)
flatten(rs) ==
    IF rs = <<>> THEN <<>>
    ELSE [i \in 1..(Head(rs)[2] - Head(rs)[1] + 1) |-> Head(rs)[1] + i - 1] \o flatten(Tail(rs))

\* C14: gather_lines is idempotent on its own output:
\* gather_lines(flatten(gather_lines(x))) = gather_lines(x).
C14_GatherIdempotent ==
    mode = "adjacent" /\ ranges.some =>
        gather_lines(flatten(ranges.val)) = ranges.val

\* the output has a range longer than one line and the flattened output is
\* not the input (the input was unsorted or held a duplicate)
C14_Witness ==
    /\ mode = "adjacent" /\ ranges.some
    /\ \E i \in DOMAIN ranges.val : ranges.val[i][1] < ranges.val[i][2]
    /\ flatten(ranges.val) # lines
    /\ gather_lines(flatten(ranges.val)) = ranges.val

(***************************************************************************)
(* Snapshot queries (tracking/models.rs 138-217)                           *)
(***************************************************************************)
\* i16 - i16 as the release build computes it (two's complement wrap); a
\* debug build panics instead when the difference leaves the i16 range
I16Sub(a, b) == ((a - b + 32768) % 65536) - 32768

\* Itertools::sorted_by on the timestamps: a stable sort, dir = 1 ascending
\* (Ord::cmp(l, r)), dir = -1 descending (Ord::cmp(r, l))
RECURSIVE InsertByTimestamp(_, _, _)
InsertByTimestamp(sorted, item, dir) ==
    IF sorted = <<>> THEN <<item>>
    ELSE IF dir * Head(sorted).timestamp <= dir * item.timestamp
         THEN <<Head(sorted)>> \o InsertByTimestamp(Tail(sorted), item, dir)
         ELSE <<item>> \o sorted
RECURSIVE SortedByTimestamp(_, _)
SortedByTimestamp(records, dir) ==
    IF records = <<>> THEN <<>>
    ELSE InsertByTimestamp(SortedByTimestamp(SubSeq(records, 1, Len(records) - 1), dir),
                           records[Len(records)], dir)

\* the match of latest's fold: true => record, false => oldest
TakesOlder(oldest, record) == oldest.timestamp > record.timestamp
TakesNewer(oldest, record) == oldest.timestamp < record.timestamp

RECURSIVE LatestFold(_, _)
LatestFold(oldest, records) ==
    IF records = <<>> THEN oldest
    ELSE LatestFold(IF oldest.some /\ ~TakesNewer(oldest.val, Head(records))
                    THEN oldest
                    ELSE Some(Head(records)),
                    Tail(records))

\* BranchCoverageRecordCollection::latest
latest(records) == LatestFold(None, records)

\* BranchCoverageRecordCollection::last_delta
last_delta_oldest_first(records) ==
    LET sorted == SortedByTimestamp(records, 1)
    IN  IF sorted = <<>> THEN None
        ELSE IF Len(sorted) = 1 THEN Some(sorted[1].percentage)
        ELSE Some(I16Sub(sorted[1].percentage, sorted[2].percentage))
last_delta(records) ==
    LET sorted == SortedByTimestamp(records, -1)
    IN  IF sorted = <<>> THEN None
        ELSE IF Len(sorted) = 1 THEN Some(sorted[1].percentage)
        ELSE Some(I16Sub(sorted[1].percentage, sorted[2].percentage))

\* the filter of delta
InPeriodBeforeEnd(item, period_start_ts, period_end_ts) ==
    item.timestamp >= period_start_ts /\ item.timestamp < period_end_ts
InPeriodAfterStart(item, period_start_ts, period_end_ts) ==
    item.timestamp > period_start_ts /\ item.timestamp <= period_end_ts
InPeriod(item, period_start_ts, period_end_ts) ==
    item.timestamp >= period_start_ts /\ item.timestamp <= period_end_ts

\* BranchCoverageRecordCollection::delta: (iter.next(), iter.last())
delta(records, period_start_ts, period_end_ts) ==
    LET sorted == SortedByTimestamp(
                      SelectSeq(records, LAMBDA item : InPeriod(item, period_start_ts, period_end_ts)),
                      1)
    IN  IF sorted = <<>> THEN None
        ELSE IF Len(sorted) = 1 THEN Some(sorted[1].percentage)
        ELSE Some(I16Sub(sorted[Len(sorted)].percentage, sorted[1].percentage))

\* time::Duration::days(n).as_seconds_f64() as i64
DurationDays(n) == n * SecondsPerDay

\* BranchCoverageRecordCollection::delta_duration, the duration in seconds
delta_duration_in_whole_days(records, seconds) ==
    LET period_end_ts == latest_timestamp(records)
    IN  IF ~period_end_ts.some THEN None
        ELSE delta(records, period_end_ts.val - seconds \div SecondsPerDay, period_end_ts.val)
delta_duration(records, seconds) ==
    LET period_end_ts == latest_timestamp(records)
    IN  IF ~period_end_ts.some THEN None
        ELSE delta(records, period_end_ts.val - seconds, period_end_ts.val)

delta_last_7_days(records) == delta_duration(records, DurationDays(7))
delta_last_30_days(records) == delta_duration(records, DurationDays(30))
delta_last_90_days(records) == delta_duration(records, DurationDays(90))

\* ReadmeCoverageEntry::from_collection: None as soon as one query answers
\* None (visualisation.rs 118-135); owner, repo and branch are copied and left
\* out, and every timestamp add_new_record stores is one that
\* OffsetDateTime::from_unix_timestamp accepts
from_collection(coll) ==
    LET newest == latest(coll.records)
        last == last_delta(coll.records)
        delta_7 == delta_last_7_days(coll.records)
        delta_30 == delta_last_30_days(coll.records)
        delta_90 == delta_last_90_days(coll.records)
        last_update == latest_timestamp(coll.records)
    IN  IF \/ ~newest.some \/ ~last.some \/ ~delta_7.some \/ ~delta_30.some
           \/ ~delta_90.some \/ ~last_update.some
        THEN None
        ELSE Some([coverage |-> newest.val.percentage, last_delta |-> last.val,
                   delta_7_days |-> delta_7.val, delta_30_days |-> delta_30.val,
                   delta_90_days |-> delta_90.val, last_update |-> last_update.val])

(***************************************************************************)
(* SpecQuery: a collection filled by add_new_record at clock readings in   *)
(* any order, then queried                                                 *)
(***************************************************************************)
\* the calls that fill the collection: day of the clock reading and coverage;
\* two readings can fall in the same second with different coverage, and a
\* percentage can lie beyond -100 or 100
QueryCalls ==
    {[now |-> c[1] * SecondsPerDay, percentage |-> Fin(c[2], 1)] :
        c \in {<<0, 60>>, <<7, 70>>, <<40, 80>>, <<7, 80>>, <<40, 60>>,
               <<0, -200>>, <<7, 200>>}}
\* period bounds handed to delta, and durations handed to delta_duration
PeriodBounds == {d * SecondsPerDay : d \in {0, 7, 10, 40}}
Durations == {DurationDays(d) : d \in {0, 33}}
Call(op, a, b) == [op |-> op, a |-> a, b |-> b]

InitQuery ==
    /\ StoreIdle /\ QueryIdle
    /\ PushIdle /\ GroupIdle /\ AttrIdle /\ CoalesceIdle /\ RunIdle

\* add_new_record, before the collection is queried
RecordSnapshot ==
    /\ ~query.some
    /\ Len(collection.records) < MaxStored
    /\ \E call \in QueryCalls :
        LET after == add_new_record(collection, call.now, call.percentage, FilesEmpty)
        IN  /\ collection' = after
            /\ lastCall' = [now |-> call.now, percentage |-> call.percentage,
                            files |-> FilesEmpty,
                            evicted |-> Len(collection.records) + 1 - Len(after.records)]
    /\ UNCHANGED <<runVars, pushVars, groupVars, attrVars, coalesceVars, queryVars>>

Latest ==
    /\ query' = Some(Call("latest", 0, 0))
    /\ answer' = Some(latest(collection.records))
    /\ UNCHANGED <<runVars, storeVars, pushVars, groupVars, attrVars, coalesceVars>>

LastDelta ==
    /\ query' = Some(Call("last_delta", 0, 0))
    /\ answer' = Some(last_delta(collection.records))
    /\ UNCHANGED <<runVars, storeVars, pushVars, groupVars, attrVars, coalesceVars>>

Delta ==
    /\ \E period_start_ts \in PeriodBounds, period_end_ts \in PeriodBounds :
        /\ query' = Some(Call("delta", period_start_ts, period_end_ts))
        /\ answer' = Some(delta(collection.records, period_start_ts, period_end_ts))
    /\ UNCHANGED <<runVars, storeVars, pushVars, groupVars, attrVars, coalesceVars>>

DeltaDuration ==
    /\ \E seconds \in Durations :
        /\ query' = Some(Call("delta_duration", seconds, 0))
        /\ answer' = Some(delta_duration(collection.records, seconds))
    /\ UNCHANGED <<runVars, storeVars, pushVars, groupVars, attrVars, coalesceVars>>

DeltaLastDays ==
    /\ \/ /\ query' = Some(Call("delta_last_days", 7, 0))
          /\ answer' = Some(delta_last_7_days(collection.records))
       \/ /\ query' = Some(Call("delta_last_days", 30, 0))
          /\ answer' = Some(delta_last_30_days(collection.records))
       \/ /\ query' = Some(Call("delta_last_days", 90, 0))
          /\ answer' = Some(delta_last_90_days(collection.records))
    /\ UNCHANGED <<runVars, storeVars, pushVars, groupVars, attrVars, coalesceVars>>

\* try_collect_records on the branch's collection (visualisation.rs 73-84)
FromCollection ==
    /\ query' = Some(Call("from_collection", 0, 0))
    /\ answer' = Some(from_collection(collection))
    /\ UNCHANGED <<runVars, storeVars, pushVars, groupVars, attrVars, coalesceVars>>

NextQuery ==
    \/ RecordSnapshot \/ Latest \/ LastDelta \/ Delta \/ DeltaDuration \/ DeltaLastDays
    \/ FromCollection

SpecQuery == InitQuery /\ [][NextQuery]_vars

\* the same records in every storage order
Reorderings(records) ==
    {[i \in DOMAIN records |-> records[f[i]]] :
        f \in {g \in [DOMAIN records -> DOMAIN records] :
                  \A i, j \in DOMAIN records : g[i] = g[j] => i = j}}
\* no two records of the collection carry the same timestamp
DistinctTimestamps ==
    \A i, j \in DOMAIN collection.records :
        i # j => collection.records[i].timestamp # collection.records[j].timestamp
Asked(op) == query.some /\ query.val.op = op

\* the value last_delta is claimed to return: none, the only percentage, or
\* newest minus second newest for some choice among equal timestamps
LastDeltaAsClaimed(got) ==
    LET rs == collection.records
    IN  /\ rs = <<>> => got = None
        /\ Len(rs) = 1 => got = Some(rs[1].percentage)
        /\ Len(rs) >= 2 =>
               \E i, j \in DOMAIN rs :
                   /\ i # j
                   /\ \A k \in DOMAIN rs : rs[k].timestamp <= rs[i].timestamp
                   /\ \A k \in DOMAIN rs \ {i} : rs[k].timestamp <= rs[j].timestamp
                   /\ got = Some(rs[i].percentage - rs[j].percentage)

\* C15 as claimed: last_delta returns none for an empty collection, the only
\* snapshot's percentage for one snapshot, otherwise newest minus second newest
\* by timestamp, and the result does not depend on the storage order.
C15_LastDeltaAnyOrder ==
    Asked("last_delta") =>
        /\ LastDeltaAsClaimed(answer.val)
        /\ \A other \in Reorderings(collection.records) : last_delta(other) = answer.val

\* C15 as amended: the same, with the independence of the storage order
\* limited to collections whose timestamps are pairwise distinct (among equal
\* timestamps the stable sort keeps the storage order).
C15_LastDeltaDistinctTimestamps ==
    Asked("last_delta") =>
        /\ LastDeltaAsClaimed(answer.val)
        /\ DistinctTimestamps =>
               \A other \in Reorderings(collection.records) : last_delta(other) = answer.val

\* snapshots at 7 d (70%), 40 d (80%), 0 (60%), stored in that order: 1000
C15_Witness ==
    /\ Asked("last_delta")
    /\ Stamp(collection.records) =
           << <<7 * SecondsPerDay, 7000>>, <<40 * SecondsPerDay, 8000>>, <<0, 6000>> >>
    /\ answer.val = Some(1000)

\* the value delta is claimed to return for the period of the call: none, the
\* only matching percentage, or newest matching minus oldest matching for
\* some choice among equal timestamps
DeltaAsClaimed(got) ==
    LET rs == collection.records
        matching == {i \in DOMAIN rs :
                        query.val.a <= rs[i].timestamp /\ rs[i].timestamp <= query.val.b}
    IN  /\ matching = {} => got = None
        /\ Cardinality(matching) = 1 =>
               \A i \in matching : got = Some(rs[i].percentage)
        /\ Cardinality(matching) >= 2 =>
               \E i, j \in matching :
                   /\ i # j
                   /\ \A k \in matching : rs[k].timestamp <= rs[i].timestamp
                   /\ \A k \in matching : rs[j].timestamp <= rs[k].timestamp
                   /\ got = Some(rs[i].percentage - rs[j].percentage)

\* C16 as claimed: delta(startTs, endTs) looks at exactly the snapshots with
\* startTs <= timestamp <= endTs: none if none matches, the raw percentage if
\* one matches, otherwise newest matching minus oldest matching, and the result
\* does not depend on the storage order.
C16_DeltaAnyOrder ==
    Asked("delta") =>
        /\ DeltaAsClaimed(answer.val)
        /\ \A other \in Reorderings(collection.records) :
               delta(other, query.val.a, query.val.b) = answer.val

\* C16 as amended: the same, with the independence of the storage order
\* limited to collections whose timestamps are pairwise distinct (among equal
\* timestamps the stable sort keeps the storage order).
C16_DeltaDistinctTimestamps ==
    Asked("delta") =>
        /\ DeltaAsClaimed(answer.val)
        /\ DistinctTimestamps =>
               \A other \in Reorderings(collection.records) :
                   delta(other, query.val.a, query.val.b) = answer.val

\* snapshots stored as 40 d (80%), 0 (60%), 7 d (70%); the period [7 d, 40 d]
\* starts and ends on a snapshot: both are in, 8000 - 7000
C16_Witness ==
    /\ Asked("delta")
    /\ Stamp(collection.records) =
           << <<40 * SecondsPerDay, 8000>>, <<0, 6000>>, <<7 * SecondsPerDay, 7000>> >>
    /\ query.val.a = 7 * SecondsPerDay /\ query.val.b = 40 * SecondsPerDay
    /\ answer.val = Some(1000)

\* C17: delta_duration(d) returns none iff the collection is empty and
\* otherwise equals delta(L - d, L), L the maximum timestamp of the collection;
\* delta_last_7_days, _30_days and _90_days are delta_duration of 7, 30 and 90
\* days.
C17_DeltaDurationEndsAtLatest ==
    Asked("delta_duration") \/ Asked("delta_last_days") =>
        LET rs == collection.records
            L == SetMax({rs[i].timestamp : i \in DOMAIN rs})
            d == IF query.val.op = "delta_duration" THEN query.val.a
                 ELSE query.val.a * 86400
        IN  /\ answer.val = None <=> rs = <<>>
            /\ rs # <<>> => answer.val = delta(rs, L - d, L)

\* snapshots at 0, 7 d and 40 d: the 30-day period is [10 d, 40 d] and holds
\* the 40 d snapshot only, whose raw percentage is returned
C17_Witness ==
    /\ Asked("delta_last_days") /\ query.val.a = 30
    /\ Stamp(collection.records) =
           << <<0, 6000>>, <<7 * SecondsPerDay, 7000>>, <<40 * SecondsPerDay, 8000>> >>
    /\ {i \in DOMAIN collection.records :
           10 * SecondsPerDay <= collection.records[i].timestamp} = {3}
    /\ answer.val = Some(8000)

\* C18: latest returns none iff the collection is empty, and otherwise a
\* stored snapshot whose timestamp is the maximum and equals latest_timestamp().
C18_LatestIsMaximum ==
    Asked("latest") =>
        LET rs == collection.records
        IN  /\ answer.val = None <=> rs = <<>>
            /\ rs # <<>> =>
                   /\ answer.val.some
                   /\ answer.val.val \in Range(rs)
                   /\ \A i \in DOMAIN rs : rs[i].timestamp <= answer.val.val.timestamp
                   /\ latest_timestamp(rs) = Some(answer.val.val.timestamp)

\* two snapshots tie on the maximum timestamp with different percentages, an
\* older one is stored after them: one of the tied two is returned
C18_Witness ==
    /\ Asked("latest")
    /\ Stamp(collection.records) =
           << <<40 * SecondsPerDay, 8000>>, <<40 * SecondsPerDay, 6000>>, <<0, 6000>> >>
    /\ answer.val.some
    /\ answer.val.val.timestamp = 40 * SecondsPerDay

(***************************************************************************)
(* SpecPercent: make_percent, FileCoverageRecord::new and add_new_record   *)
(* on percentages inside, at the edge of and far outside [-100, 100]       *)
(***************************************************************************)
\* f64 arguments: multiples of 25 over a power of two (exact in binary, so
\* is their product with 100), values next to +-100, values far outside, and
\* the non-finite ones
PercentArguments ==
    {Fin(25 * n, d) : n \in (-MaxPercentStep)..MaxPercentStep, d \in {1, 8, 64}}
    \cup {Fin(799, 8), Fin(801, 8), Fin(-799, 8), Fin(-801, 8)}
    \cup {Fin(10000000, 1), Fin(-10000000, 1)}
    \cup {NaN, PosInf, NegInf}

InitPercent ==
    /\ StoreIdle /\ QueryIdle
    /\ PushIdle /\ GroupIdle /\ AttrIdle /\ CoalesceIdle /\ RunIdle

MakePercent ==
    /\ ~query.some
    /\ \E percentage \in PercentArguments :
        /\ query' = Some(Call("make_percent", percentage, 0))
        /\ answer' = Some(make_percent(percentage))
    /\ UNCHANGED <<runVars, storeVars, pushVars, groupVars, attrVars, coalesceVars>>

NewFileCoverageRecord ==
    /\ ~query.some
    /\ \E percentage \in PercentArguments :
        /\ query' = Some(Call("FileCoverageRecord::new", percentage, 0))
        /\ answer' = Some(FileCoverageRecord(percentage, <<3>>))
    /\ UNCHANGED <<runVars, storeVars, pushVars, groupVars, attrVars, coalesceVars>>

\* add_new_record on the empty collection; it returns ()
AddFirstRecord ==
    /\ ~query.some
    /\ \E percentage \in PercentArguments :
        /\ query' = Some(Call("add_new_record", percentage, 0))
        /\ collection' = add_new_record(collection, 0, percentage, FilesEmpty)
        /\ lastCall' = [now |-> 0, percentage |-> percentage, files |-> FilesEmpty,
                        evicted |-> 0]
        /\ answer' = Some(<<>>)
    /\ UNCHANGED <<runVars, pushVars, groupVars, attrVars, coalesceVars>>

NextPercent == MakePercent \/ NewFileCoverageRecord \/ AddFirstRecord

SpecPercent == InitPercent /\ [][NextPercent]_vars

\* got is clamp(round(clamp(p, -100, 100) * 100), -10000, 10000) for the
\* rational n/d: the integer nearest to 100 * n / d, the one away from zero
\* when two are equally near, within the limits
IsRoundedHundredfold(got, n, d) ==
    LET cn == IF n < -100 * d THEN -100 * d ELSE IF n > 100 * d THEN 100 * d ELSE n
    IN  /\ 2 * Abs(got * d - 100 * cn) <= d
        /\ 2 * Abs(got * d - 100 * cn) = d => Abs(got) * d > Abs(100 * cn)

\* C19: make_percent(p) is clamp(round(clamp(p, -100, 100) * 100), -10000,
\* 10000) and lies in [-10000, 10000] for every input, far out of range
\* included; so does the percentage of every FileCoverageRecord made by
\* FileCoverageRecord::new and of every snapshot stored by add_new_record.
C19_PercentInRange ==
    /\ Asked("make_percent") =>
        /\ answer.val \in -10000..10000
        /\ IsFinite(query.val.a) =>
               IsRoundedHundredfold(answer.val, query.val.a.n, query.val.a.d)
        /\ query.val.a = PosInf => answer.val = 10000
        /\ query.val.a = NegInf => answer.val = -10000
    /\ Asked("FileCoverageRecord::new") => answer.val.percentage \in -10000..10000
    /\ Asked("add_new_record") =>
        /\ collection.records # <<>>
        /\ \A i \in DOMAIN collection.records :
               collection.records[i].percentage \in -10000..10000

\* a snapshot stored for a percentage far above 100 carries 10000
C19_Witness ==
    /\ Asked("add_new_record")
    /\ query.val.a = Fin(10000000, 1)
    /\ collection.records[1].percentage = 10000

(***************************************************************************)
(* group_data, the uncovered lines and the buffers (SpecGroup)             *)
(***************************************************************************)
\* the lines of the LineData records with count 0 in the context of the file
\* opened at position p
UncoveredIn(p) ==
    {stream[i].a : i \in {k \in ContextOf(p) : stream[k].t = "LineData" /\ stream[k].b = 0}}

\* C21: each file returned by group_data lists exactly the lines of the
\* LineData records with count 0 of its context, strictly ascending and
\* without duplicates; LineData with count > 0 and LineData before the first
\* SourceFile contribute nothing.
C21_UncoveredLinesSortedDeduplicated ==
    grouped.some =>
        /\ Len(grouped.val) = Cardinality(FilePositions)
        /\ \A p \in FilePositions :
            LET file_lines == grouped.val[FileIndex(p)].lines
            IN  /\ Range(file_lines) = UncoveredIn(p)
                /\ \A i, j \in DOMAIN file_lines : i < j => file_lines[i] < file_lines[j]

\* the records of the context of the file opened at position p, in order
ContextRecords(p) ==
    SelectSeq([i \in DOMAIN stream |-> IF i \in ContextOf(p) THEN stream[i] ELSE SourceFile("")],
              LAMBDA record : record.t # "SourceFile")

\* C26: a SourceFile record resets the pending totals: the percentage of each
\* file is the one group_data computes from the file's own context alone
\* (nothing seen before its SourceFile record is paired with a total after it),
\* and a file whose context lacks a LinesHit or lacks a LinesFound keeps
\* percentage 0.
C26_SourceFileResetsBuffers ==
    grouped.some =>
        \A p \in FilePositions :
            LET got == grouped.val[FileIndex(p)].percentage
                alone == group_data(<<stream[p]>> \o ContextRecords(p))[1].percentage
                hits == {i \in ContextOf(p) : stream[i].t = "LinesHit"}
                founds == {i \in ContextOf(p) : stream[i].t = "LinesFound"}
            IN  /\ got = alone
                /\ hits = {} \/ founds = {} => got = Fin(0, 1)

\* a LinesHit before the SourceFile record and a LinesFound after it: the
\* file keeps percentage 0
C26_Witness ==
    /\ grouped.some
    /\ stream = <<LinesHit(1), SourceFile("src/a.rs"), LinesFound(1)>>
    /\ grouped.val[1].percentage = Fin(0, 1)

(***************************************************************************)
(* The three coalescers and the shape of their output (SpecCoalesce)       *)
(***************************************************************************)
\* the input of the fold that ran
CoalescerInput == IF mode = "hunk" THEN raw_lines.val ELSE lines
Ascending(input) == \A i, j \in DOMAIN input : i < j => input[i] <= input[j]
\* start <= end, sorted ascending, pairwise non-overlapping
WellFormedRanges(rs) ==
    /\ \A i \in DOMAIN rs : rs[i][1] <= rs[i][2]
    /\ \A i, j \in DOMAIN rs : i < j => rs[i][2] < rs[j][1]

\* C27: on every ascending input (duplicates and line 0 allowed) each of
\* gather_lines, the hunked_lines fold and the build_lines fold returns ranges
\* with start <= end, sorted ascending and pairwise non-overlapping.
C27_CoalescersWellFormed ==
    (report # "none" \/ ranges.some) /\ report # "omitted" /\ Ascending(CoalescerInput) =>
        ranges.some /\ WellFormedRanges(ranges.val)

\* the part of C27 that holds: gather_lines and the hunked_lines fold
C27_GatherAndHunkedWellFormed ==
    mode \in {"adjacent", "hunk"} /\ ranges.some /\ Ascending(CoalescerInput) =>
        WellFormedRanges(ranges.val)

(***************************************************************************)
(* Queries of a non-empty collection (SpecQuery)                           *)
(***************************************************************************)
\* C28: on every non-empty collection latest, last_delta and the deltas of
\* the last 7, 30 and 90 days are defined, and from_collection yields an entry
\* (with the coverage of the newest snapshot), so the branch gets its README row.
C28_NonEmptyAlwaysDefined ==
    collection.records # <<>> =>
        /\ (Asked("latest") \/ Asked("last_delta") \/ Asked("delta_last_days")) => answer.val.some
        /\ Asked("from_collection") =>
               /\ answer.val.some
               /\ answer.val.val.coverage \in
                      {collection.records[i].percentage : i \in DOMAIN collection.records}
               /\ answer.val.val.last_update =
                      SetMax({collection.records[i].timestamp : i \in DOMAIN collection.records})

\* three snapshots, the newest 33 days after the one before it: the 7 day
\* window holds the newest snapshot alone and the entry is still built
C28_Witness ==
    /\ Asked("from_collection")
    /\ Stamp(collection.records) =
           << <<0, 6000>>, <<7 * SecondsPerDay, 7000>>, <<40 * SecondsPerDay, 8000>> >>
    /\ answer.val.some
    /\ answer.val.val.delta_7_days = 8000
    /\ answer.val.val.coverage = 8000

\* the differences of the stored percentages, as integers
Differences ==
    {collection.records[i].percentage - collection.records[j].percentage :
        i, j \in DOMAIN collection.records}
Percentages == {collection.records[i].percentage : i \in DOMAIN collection.records}

\* C29: the stored percentages lie in [-10000, 10000], and every answer of
\* last_delta, delta, delta_duration and the deltas of the last days is a
\* stored percentage or the exact difference of two of them (the 16-bit
\* subtraction did not wrap), hence within [-20000, 20000].
C29_DeltasDoNotOverflow ==
    /\ Percentages \subseteq -10000..10000
    /\ (\/ Asked("last_delta") \/ Asked("delta") \/ Asked("delta_duration")
        \/ Asked("delta_last_days")) /\ answer.val.some =>
           /\ answer.val.val \in -20000..20000
           /\ answer.val.val \in Differences \cup Percentages

\* the two extreme percentages, seven days apart: the delta is 20000
C29_Witness ==
    /\ Asked("last_delta")
    /\ Stamp(collection.records) = << <<0, -10000>>, <<7 * SecondsPerDay, 10000>> >>
    /\ answer.val = Some(20000)

(***************************************************************************)
(* SpecPull: one run of generate_pr_coverage_report over the files of the  *)
(* lcov report, from list_files to the last review comment                 *)
(* (crates/meow-coverage/src/coverage/pull.rs)                             *)
(***************************************************************************)
MaxPullFiles == 2

PullFileNames == <<"src/a.rs", "src/b.rs", "src/c.rs", "src/d.rs">>

PullFileCoverageWrapper(realpath, raw, hunked) ==
    [realpath |-> realpath, raw_lines |-> raw, hunked_lines |-> hunked]

\* the filter_map closure for one file of group_data (pull.rs 70-124)
PullFileClosure(file) ==
    IF file.diff # "parsed"
    THEN None
    ELSE LET raw == attributed_lines(file.hunks, file.lines)
         IN  IF raw = <<>>
             THEN None
             ELSE Some(PullFileCoverageWrapper(file.realpath, raw, hunked_lines(file.hunks, raw)))

\* grouped_data.into_iter().filter_map(..).collect::<Vec<_>>() (pull.rs 68-125)
RECURSIVE untested_changes_until_parse_error(_)
untested_changes_until_parse_error(files) ==
    IF files = <<>> \/ Head(files).diff = "malformed"
    THEN <<>>
    ELSE LET kept == PullFileClosure(Head(files))
             rest == untested_changes_until_parse_error(Tail(files))
         IN  IF kept.some THEN <<kept.val>> \o rest ELSE rest
RECURSIVE untested_changes(_)
untested_changes(files) ==
    IF files = <<>>
    THEN <<>>
    ELSE LET kept == PullFileClosure(Head(files))
             rest == untested_changes(Tail(files))
         IN  IF kept.some THEN <<kept.val>> \o rest ELSE rest

\* the review comments of the two nested loops, in the order they are sent
\* (pull.rs 152-165)
RECURSIVE ReviewComments(_)
ReviewComments(changes) ==
    IF changes = <<>>
    THEN <<>>
    ELSE [i \in DOMAIN Head(changes).hunked_lines |->
             [path |-> Head(changes).realpath,
              first_line |-> Head(changes).hunked_lines[i][1],
              final_line |-> Head(changes).hunked_lines[i][2]]]
         \o ReviewComments(Tail(changes))

\* the patches of the PR's files: none, one hunk, or two hunks two lines apart
PullPatches ==
    {<<>>, <<Hunk(1, 1, <<"Add">>), Hunk(3, 1, <<"Add">>)>>}
        \cup {<<Hunk(start, 2, <<"Context", "Add">>)>> : start \in 1..MaxStart}

\* one file of group_data with what file_diff_meta holds for it
PullFilesNamed(realpath) ==
    {[realpath |-> realpath, diff |-> d, hunks |-> hs, lines |-> ls] :
        d \in DiffStates, hs \in PullPatches, ls \in {AllLines, OddLines}}

PullFile(realpath) ==
    {file \in PullFilesNamed(realpath) : file.diff # "parsed" => file.hunks = <<>>}

PullFileLists ==
    UNION {{files \in [1..n -> UNION {PullFile(PullFileNames[i]) : i \in 1..n}] :
               \A i \in 1..n : files[i].realpath = PullFileNames[i]} : n \in 0..MaxPullFiles}

\* the lcov files are read and the repository name is split: list_files is next
InitPull ==
    /\ \E files \in PullFileLists :
           pull = [pc |-> "list_files", files |-> files, listed |-> FALSE,
                   untested_changes |-> <<>>,
                   comment |-> None, reviews |-> <<>>, err |-> "none"]
    /\ CommandIdle
    /\ StoreIdle /\ PushIdle /\ GroupIdle /\ AttrIdle /\ CoalesceIdle /\ QueryIdle

\* list_files(pr_number).await, then the closure on every file (pull.rs 46-126)
ListFiles ==
    /\ pull.pc = "list_files"
    /\ pull' = [pull EXCEPT !.pc = "create_comment", !.listed = TRUE,
                            !.untested_changes = untested_changes(pull.files)]
    /\ UNCHANGED <<cmd, storeVars, pushVars, groupVars, attrVars, coalesceVars, queryVars>>

\* issues.create_comment(..).await with the summary of untested_changes
\* (pull.rs 128-150)
CreateComment ==
    /\ pull.pc = "create_comment"
    /\ pull' = [pull EXCEPT !.comment = Some(pull.untested_changes),
                            !.pc = IF ReviewComments(pull.untested_changes) = <<>>
                                   THEN "done" ELSE "create_review_comment"]
    /\ UNCHANGED <<cmd, storeVars, pushVars, groupVars, attrVars, coalesceVars, queryVars>>

\* create_review_comment(..).await for the next range (pull.rs 152-165)
CreateReviewComment ==
    /\ pull.pc = "create_review_comment"
    /\ LET all == ReviewComments(pull.untested_changes)
           sent == Append(pull.reviews, all[Len(pull.reviews) + 1])
       IN  pull' = [pull EXCEPT !.reviews = sent,
                                !.pc = IF Len(sent) = Len(all) THEN "done" ELSE @]
    /\ UNCHANGED <<cmd, storeVars, pushVars, groupVars, attrVars, coalesceVars, queryVars>>

\* any of the awaited requests answers with an error: `?` returns it
PullRequestFails ==
    /\ pull.pc \in {"list_files", "create_comment", "create_review_comment"}
    /\ pull' = [pull EXCEPT !.pc = "error", !.err = "octocrab"]
    /\ UNCHANGED <<cmd, storeVars, pushVars, groupVars, attrVars, coalesceVars, queryVars>>

NextPull == ListFiles \/ CreateComment \/ CreateReviewComment \/ PullRequestFails

SpecPull == InitPull /\ [][NextPull]_vars

\* the files of the run without those whose patch does not parse
WithoutMalformed == SelectSeq(pull.files, LAMBDA file : file.diff # "malformed")
Reported(changes) == {changes[k].realpath : k \in DOMAIN changes}

\* C22: a patch that fails to parse only removes its own file: the run raises
\* no error for it, and the files kept, the summary comment and the review
\* comments are those of the same run without the malformed files; every file
\* whose patch parses and changes an uncovered line is reported.
C22_MalformedDiffOnlySkipsFile ==
    LET expected == untested_changes(WithoutMalformed)
    IN  /\ pull.err \in {"none", "octocrab"}
        /\ pull.listed => pull.untested_changes = expected
        /\ pull.comment.some => pull.comment.val = expected
        /\ pull.pc = "done" => pull.err = "none" /\ pull.reviews = ReviewComments(expected)
        /\ pull.listed =>
               \A i \in DOMAIN pull.files :
                   (/\ pull.files[i].diff = "parsed"
                    /\ attributed_lines(pull.files[i].hunks, pull.files[i].lines) # <<>>)
                       <=> pull.files[i].realpath \in Reported(pull.untested_changes)

\* the first file's patch did not parse; the run ended without error and sent
\* the review comments of the second file
C22_Witness ==
    /\ pull.pc = "done" /\ pull.err = "none"
    /\ Len(pull.files) = 2
    /\ pull.files[1].diff = "malformed"
    /\ pull.comment.some /\ Reported(pull.comment.val) = {"src/b.rs"}
    /\ pull.reviews # <<>> /\ \A i \in DOMAIN pull.reviews : pull.reviews[i].path = "src/b.rs"

(***************************************************************************)
(* SpecCommand: one run of push, push-with-report, rebuild or              *)
(* remove-branch, with the requests it sends (coverage/push.rs,            *)
(* tracking.rs, tracking/management.rs). A repository identifier is the    *)
(* sequence of its characters.                                             *)
(***************************************************************************)
\* str::split_once('/'): the parts before and after the first '/'
split_once_or_whole(name) ==
    LET slashes == {i \in DOMAIN name : name[i] = "/"}
    IN  IF slashes = {}
        THEN Some(<<name, <<>>>>)
        ELSE LET first == CHOOSE i \in slashes : \A j \in slashes : i <= j
             IN  Some(<<SubSeq(name, 1, first - 1), SubSeq(name, first + 1, Len(name))>>)
split_once(name) ==
    LET slashes == {i \in DOMAIN name : name[i] = "/"}
    IN  IF slashes = {}
        THEN None
        ELSE LET first == CHOOSE i \in slashes : \A j \in slashes : i <= j
             IN  Some(<<SubSeq(name, 1, first - 1), SubSeq(name, first + 1, Len(name))>>)

\* build_coverage_report: None when a query of the collection answers None
\* (visualisation.rs 292-333); the timestamps stored are all in the range
\* OffsetDateTime::from_unix_timestamp accepts
build_coverage_report(coll) ==
    LET newest == latest(coll.records)
        last == last_delta(coll.records)
        delta7 == delta_last_7_days(coll.records)
        delta30 == delta_last_30_days(coll.records)
        delta90 == delta_last_90_days(coll.records)
    IN  IF ~newest.some \/ ~last.some \/ ~delta7.some \/ ~delta30.some \/ ~delta90.some
        THEN None
        ELSE Some([team |-> coll.team, coverage |-> newest.val.percentage,
                   timestamp |-> newest.val.timestamp, last_delta |-> last.val,
                   delta7 |-> delta7.val, delta30 |-> delta30.val, delta90 |-> delta90.val])

\* identifiers given on the command line: owner/repo, no separator, two separators
RepoNames == {<<"o", "/", "r">>, <<"o", "r">>, <<"o", "/", "r", "/", "x">>}
NoRepo == <<>>

\* what the records directory holds for the branch: no file, a collection
\* without snapshots, or the collection an earlier push left
StoredCollections ==
    {None, Some([team |-> "Product", records |-> <<>>]), Some(Deserialize(EarlierBlob))}

Commands == {"push", "push_with_report", "rebuild", "remove_branch"}

InitCommand ==
    /\ \E command \in Commands, target_repo \in RepoNames,
          coverage_repo \in RepoNames \cup {NoRepo}, stored \in StoredCollections :
           /\ (command = "push") <=> (coverage_repo = NoRepo)
           /\ command # "rebuild" => stored = None
           /\ cmd = [command |-> command, target_repo |-> target_repo,
                     coverage_repo |-> coverage_repo, stored |-> stored,
                     pc |-> "start", other_sha |-> FALSE, requests |-> <<>>,
                     result |-> "running"]
    /\ PullIdle
    /\ StoreIdle /\ PushIdle /\ GroupIdle /\ AttrIdle /\ CoalesceIdle /\ QueryIdle

Return(result) == [cmd EXCEPT !.pc = "done", !.result = result]
Sent(request, pc) == [cmd EXCEPT !.requests = Append(@, request), !.pc = pc]

\* the lcov file is read, the target repository split (push.rs 41-43); the
\* commit comment is the next request
PushStart ==
    /\ cmd.command \in {"push", "push_with_report"}
    /\ cmd.pc = "start"
    /\ cmd' = IF split_once(cmd.target_repo).some
              THEN [cmd EXCEPT !.pc = "create_comment"]
              ELSE Return("RepoNameMissingSlash")
    /\ UNCHANGED <<pull, storeVars, pushVars, groupVars, attrVars, coalesceVars, queryVars>>

\* commits.create_comment(..).send().await, then the coverage repository is
\* split when one is given (push.rs 79-99)
PushCreateComment ==
    /\ cmd.command \in {"push", "push_with_report"}
    /\ cmd.pc = "create_comment"
    /\ cmd' = IF cmd.command = "push"
              THEN [Sent("create_comment", "done") EXCEPT !.result = "Ok"]
              ELSE IF split_once(cmd.coverage_repo).some
                   THEN Sent("create_comment", "raw_file")
                   ELSE [Sent("create_comment", "done") EXCEPT !.result = "RepoNameMissingSlash"]
    /\ UNCHANGED <<pull, storeVars, pushVars, groupVars, attrVars, coalesceVars, queryVars>>

\* raw_file(..).await and the three answers told apart (push.rs 102-111)
PushRawFile ==
    /\ cmd.command = "push_with_report"
    /\ cmd.pc = "raw_file"
    /\ \E status \in {"NOT_FOUND", "UNAUTHORIZED", "OK"} :
           cmd' = CASE status = "NOT_FOUND" -> Sent("raw_file", "create_file")
                    [] status = "UNAUTHORIZED" ->
                           [Sent("raw_file", "done") EXCEPT !.result = "MissingAccessToCoverageRepo"]
                    [] OTHER -> Sent("raw_file", "get_file_sha")
    /\ UNCHANGED <<pull, storeVars, pushVars, groupVars, attrVars, coalesceVars, queryVars>>

\* get_file_sha(..).await (push.rs 113-119)
PushGetFileSha ==
    /\ cmd.command = "push_with_report"
    /\ cmd.pc = "get_file_sha"
    /\ cmd' = Sent("get_file_sha", "update_file")
    /\ UNCHANGED <<pull, storeVars, pushVars, groupVars, attrVars, coalesceVars, queryVars>>

\* update_file or create_file (push.rs 142-172)
PushWriteFile ==
    /\ cmd.command = "push_with_report"
    /\ cmd.pc \in {"update_file", "create_file"}
    /\ cmd' = Sent(cmd.pc, "create_workflow_dispatch")
    /\ UNCHANGED <<pull, storeVars, pushVars, groupVars, attrVars, coalesceVars, queryVars>>

\* create_workflow_dispatch(..).send().await (push.rs 174-184)
PushDispatch ==
    /\ cmd.command = "push_with_report"
    /\ cmd.pc = "create_workflow_dispatch"
    /\ cmd' = [Sent("create_workflow_dispatch", "done") EXCEPT !.result = "Ok"]
    /\ UNCHANGED <<pull, storeVars, pushVars, groupVars, attrVars, coalesceVars, queryVars>>

\* rebuild up to its first request: both identifiers split, the collection read
\* from the records directory, the report built (tracking.rs 45-63)
RebuildStart ==
    /\ cmd.command = "rebuild"
    /\ cmd.pc = "start"
    /\ cmd' = IF ~split_once(cmd.coverage_repo).some \/ ~split_once(cmd.target_repo).some
              THEN Return("RepoNameMissingSlash")
              ELSE IF ~cmd.stored.some
                   THEN Return("IoError")
                   ELSE IF ~build_coverage_report(cmd.stored.val).some
                        THEN Return("Ok")
                        ELSE [cmd EXCEPT !.pc = "get_file_sha README"]
    /\ UNCHANGED <<pull, storeVars, pushVars, groupVars, attrVars, coalesceVars, queryVars>>

\* get_file_sha(.., "README.md").await? (tracking.rs 67-73)
RebuildReadmeSha ==
    /\ cmd.command = "rebuild"
    /\ cmd.pc = "get_file_sha README"
    /\ cmd' = Sent("get_file_sha README", "get_file_sha report")
    /\ UNCHANGED <<pull, storeVars, pushVars, groupVars, attrVars, coalesceVars, queryVars>>

\* get_file_sha(.., report_path).await.ok(): an error is no sha (tracking.rs 74-81)
RebuildReportSha ==
    /\ cmd.command = "rebuild"
    /\ cmd.pc = "get_file_sha report"
    /\ \E found \in BOOLEAN :
           cmd' = [Sent("get_file_sha report", "update_file README") EXCEPT !.other_sha = found]
    /\ UNCHANGED <<pull, storeVars, pushVars, groupVars, attrVars, coalesceVars, queryVars>>

\* update_file("README.md", ..) (tracking.rs 83-90)
RebuildUpdateReadme ==
    /\ cmd.command = "rebuild"
    /\ cmd.pc = "update_file README"
    /\ cmd' = Sent("update_file README", "write report")
    /\ UNCHANGED <<pull, storeVars, pushVars, groupVars, attrVars, coalesceVars, queryVars>>

\* update_file or create_file of the branch report (tracking.rs 91-123)
RebuildWriteReport ==
    /\ cmd.command = "rebuild"
    /\ cmd.pc = "write report"
    /\ cmd' = [Sent(IF cmd.other_sha THEN "update_file report" ELSE "create_file report", "done")
                  EXCEPT !.result = "Ok"]
    /\ UNCHANGED <<pull, storeVars, pushVars, groupVars, attrVars, coalesceVars, queryVars>>

\* remove_branch_from_tracking up to its first request (management.rs 16-22)
RemoveStart ==
    /\ cmd.command = "remove_branch"
    /\ cmd.pc = "start"
    /\ cmd' = IF ~split_once(cmd.coverage_repo).some \/ ~split_once(cmd.target_repo).some
              THEN Return("RepoNameMissingSlash")
              ELSE [cmd EXCEPT !.pc = "get_file_sha"]
    /\ UNCHANGED <<pull, storeVars, pushVars, groupVars, attrVars, coalesceVars, queryVars>>

\* get_file_sha(..).await? (management.rs 24-30)
RemoveGetFileSha ==
    /\ cmd.command = "remove_branch"
    /\ cmd.pc = "get_file_sha"
    /\ cmd' = Sent("get_file_sha", "delete_file")
    /\ UNCHANGED <<pull, storeVars, pushVars, groupVars, attrVars, coalesceVars, queryVars>>

\* delete_file(..).send().await? (management.rs 32-48)
RemoveDeleteFile ==
    /\ cmd.command = "remove_branch"
    /\ cmd.pc = "delete_file"
    /\ cmd' = [Sent("delete_file", "done") EXCEPT !.result = "Ok"]
    /\ UNCHANGED <<pull, storeVars, pushVars, groupVars, attrVars, coalesceVars, queryVars>>

\* the pending request answers with an error and `?` returns it; the sha
\* request of the branch report is excepted, its error is turned into None
CommandRequestFails ==
    /\ cmd.pc \notin {"start", "done", "get_file_sha report"}
    /\ cmd' = Return("octocrab")
    /\ UNCHANGED <<pull, storeVars, pushVars, groupVars, attrVars, coalesceVars, queryVars>>

NextCommand ==
    \/ PushStart \/ PushCreateComment \/ PushRawFile \/ PushGetFileSha
    \/ PushWriteFile \/ PushDispatch
    \/ RebuildStart \/ RebuildReadmeSha \/ RebuildReportSha \/ RebuildUpdateReadme
    \/ RebuildWriteReport
    \/ RemoveStart \/ RemoveGetFileSha \/ RemoveDeleteFile
    \/ CommandRequestFails

SpecCommand == InitCommand /\ [][NextCommand]_vars

HasSlash(name) == \E i \in DOMAIN name : name[i] = "/"
SentAnyOf(requests) == \E i \in DOMAIN cmd.requests : cmd.requests[i] \in requests

\* C23: a rebuild of a branch whose stored collection has no snapshots ends
\* with the error ReportMissingInfo and sends no write of the README or of the
\* branch report.
C23_RebuildWithoutSnapshotsFails ==
    (/\ cmd.command = "rebuild"
     /\ HasSlash(cmd.target_repo) /\ HasSlash(cmd.coverage_repo)
     /\ cmd.stored.some /\ cmd.stored.val.records = <<>>
     /\ cmd.pc = "done")
        => cmd.result = "ReportMissingInfo" /\ cmd.requests = <<>>

CoverageRequests ==
    {"raw_file", "get_file_sha", "update_file", "create_file", "create_workflow_dispatch"}

====
